---------------------------- MODULE Spec2Model ----------------------------
(***************************************************************************)
(* A model of daily_dashboard.py: the parliament agenda extractor, the     *)
(* cabinet agenda extractor and the monthly-to-daily synthesizer.          *)
(*                                                                         *)
(* Text is written as TLA+ strings and handled with Len, SubSeq and \o.    *)
(* Module strings are ASCII, so each Latvian letter of the source is       *)
(* written as one ASCII character that the modelled texts do not use       *)
(* otherwise (one character for one character, so lengths and the          *)
(* substring relation are those of the source):                            *)
(*     a-macron q   e-macron w   i-macron y   s-caron x   g-cedilla %      *)
(*     c-caron  &   C-caron  $   copyright sign #                          *)
(***************************************************************************)
EXTENDS Integers, Sequences, FiniteSets, TLC

VARIABLES
    \* per-point classification of get_parliament_agenda (lines 560-580)
    point_pc, point, point_items,
    \* get_parliament_agenda
    parl_pc, today, week_dates, day_i, sittings, sit_i, results, parl_result,
    parl_resp, parl_fetches,
    \* the protocol-decision extraction of get_cabinet_cudars_items (lines 431-458)
    dec_pc, lines, decision,
    \* get_cabinet_cudars_items
    cab_pc, HAS_ANTHROPIC, html, meeting_path, meeting_date, agenda_html,
    sections, items, cudars_items, item_i, la_html, legal_act_text,
    cab_resp, cab_result,
    \* get_eaddress_data (ea_today is its local variable today)
    ea_pc, act_records, deact_records, chart_records, act_rates, deact_rates,
    ea_today, days_ago, streak_fiziska, streak_juridiska, ea_resp, ea_result,
    \* _extract_essence: its arguments, the calls of _ai_extract_essence made
    \* so far, the value returned, and the value the previous call returned
    ess_pc, cleaned_text, ess_legal_text, ai_attempts, ess_resp, ess_out,
    ess_calls, ess_first,
    \* main: its local variables, the file it writes, and how the process ended
    main_pc, techcrunch_news, gov_news, quote, eaddress_data, cabinet_data,
    parliament_data, html_content, dashboard_file

pointVars == <<point_pc, point, point_items>>
parlVars == <<parl_pc, today, week_dates, day_i, sittings, sit_i, results,
              parl_result, parl_resp, parl_fetches>>
decVars == <<dec_pc, lines, decision>>
cabVars == <<cab_pc, HAS_ANTHROPIC, html, meeting_path, meeting_date, agenda_html,
             sections, items, cudars_items, item_i, la_html, legal_act_text,
             cab_resp, cab_result>>
eaVars == <<ea_pc, act_records, deact_records, chart_records, act_rates, deact_rates,
            ea_today, days_ago, streak_fiziska, streak_juridiska, ea_resp, ea_result>>
essVars == <<ess_pc, cleaned_text, ess_legal_text, ai_attempts, ess_resp, ess_out,
             ess_calls, ess_first>>
mainVars == <<main_pc, techcrunch_news, gov_news, quote, eaddress_data, cabinet_data,
              parliament_data, html_content, dashboard_file>>
vars == <<pointVars, parlVars, decVars, cabVars, eaVars, essVars, mainVars>>

\* what each function leaves alone
notPointVars == <<parlVars, decVars, cabVars, eaVars, essVars, mainVars>>
notParlVars == <<pointVars, decVars, cabVars, eaVars, essVars, mainVars>>
notDecVars == <<pointVars, parlVars, cabVars, eaVars, essVars, mainVars>>
notCabVars == <<pointVars, parlVars, decVars, eaVars, essVars, mainVars>>
notEaVars == <<pointVars, parlVars, decVars, cabVars, essVars, mainVars>>
notEssVars == <<pointVars, parlVars, decVars, cabVars, eaVars, mainVars>>
notMainVars == <<pointVars, parlVars, decVars, cabVars, eaVars, essVars>>

----------------------------------------------------------------------------
(* Python values *)

\* Python's None, as a record so that it compares with the result dicts
None == [type |-> "None"]
\* the value of a result before the function has returned
Pending == [type |-> "pending"]

----------------------------------------------------------------------------
(* str operations *)

Min(a, b) == IF a <= b THEN a ELSE b
Max(a, b) == IF a >= b THEN a ELSE b

\* sub in t
Contains(sub, t) ==
    \E i \in 0..(Len(t) - Len(sub)) : SubSeq(t, i + 1, i + Len(sub)) = sub

\* t[:n]
Prefix(t, n) == SubSeq(t, 1, Min(n, Len(t)))

\* t[a-1:b], the characters a..b of t that exist
Slice(t, a, b) == SubSeq(t, a, Min(b, Len(t)))

UpperChars == "ABCDEFGHIJKLMNOPQRSTUVWXYZ$"
LowerChars == "abcdefghijklmnopqrstuvwxyz&"

LowerChar(c) ==
    IF \E i \in 1..Len(UpperChars) : SubSeq(UpperChars, i, i) = c
    THEN LET i == CHOOSE j \in 1..Len(UpperChars) : SubSeq(UpperChars, j, j) = c
         IN  SubSeq(LowerChars, i, i)
    ELSE c

\* t.lower()
RECURSIVE Lower(_)
Lower(t) ==
    IF Len(t) <= 1 THEN LowerChar(t)
    ELSE Lower(SubSeq(t, 1, Len(t) \div 2)) \o Lower(SubSeq(t, Len(t) \div 2 + 1, Len(t)))

----------------------------------------------------------------------------
(* get_parliament_agenda: classification of one agenda point *)

SAEIMA_BASE == "https://titania.saeima.lv"

VARAM_KEYWORDS == <<
    "viedqs administrqcijas un re%ionqlqs attystybas ministrij",
    "varam" >>

DIGITAL_TOPICS == <<
    "digitql", "e-pqrvald", "e-pakalpojum", "datu pqrvaldyb",
    "informqcijas sistwm", "informqcijas tehnolo%ij", "kiberdroxyb",
    "elektronisk", "atvwrt", "dati", "digitalizqc",
    "mqkslyg", "intelekt", "platforma", "portql",
    "IKT", "IT droxyb", "informqcijas sabiedryb",
    "tehnolo%iju attystyb", "inovqci", "e-identit",
    "interoperabilit", "re%istr", "datu apstrqd",
    "datu aizsardzyb", "privqtum" >>

\* any(kw in point_lower for kw in VARAM_KEYWORDS)
IsKeyword(point_lower) ==
    \E k \in 1..Len(VARAM_KEYWORDS) : Contains(VARAM_KEYWORDS[k], point_lower)

\* dt.lower() for each dt of DIGITAL_TOPICS
LoweredTopics == [n \in 1..Len(DIGITAL_TOPICS) |-> Lower(DIGITAL_TOPICS[n])]

\* sum(1 for dt in DIGITAL_TOPICS if dt.lower() in point_lower), over DIGITAL_TOPICS[1..n]
RECURSIVE TopicMatches(_, _)
TopicMatches(point_lower, n) ==
    IF n = 0 THEN 0
    ELSE TopicMatches(point_lower, n - 1)
         + (IF Contains(LoweredTopics[n], point_lower) THEN 1 ELSE 0)

\* is_digital = matches >= 2
TopicThreshold == 2
IsDigitalMutant(matches) == matches >= 1
IsDigital(matches) == matches >= TopicThreshold

\* "content" if is_digital else "keyword"
MatchType(is_keyword, is_digital) == IF is_digital THEN "content" ELSE "keyword"

\* point[:300] + ("..." if len(point) >= 300 else "")
DisplayMutant(p) == Prefix(p, 300) \o (IF Len(p) >= 300 THEN "..." ELSE "")

\* point[:300] + ("..." if len(point) > 300 else "")
DisplayLen == 300
Display(p) == Prefix(p, DisplayLen) \o (IF Len(p) > DisplayLen THEN "..." ELSE "")

\* The body of "for point in points": what one point appends to results.
PointItems(p, date, time_str, title, sitting_url) ==
    LET point_lower == Lower(p)
        is_keyword == IsKeyword(point_lower)
        matches == TopicMatches(point_lower, Len(DIGITAL_TOPICS))
        is_digital == IsDigital(matches)
    IN  IF is_keyword \/ is_digital
        THEN << [date |-> date, time |-> time_str, commission |-> title,
                 point |-> Display(p), link |-> sitting_url,
                 match_type |-> MatchType(is_keyword, is_digital)] >>
        ELSE << >>

----------------------------------------------------------------------------
(* SpecPoint: the loop body applied to one agenda point *)

\* words an agenda point is made of; a point is 1..MaxWords of them
MaxWords == 3
Words == { "VARAM", "Viedqs administrqcijas un re%ionqlqs attystybas ministrijas",
           "dati", "Portqls", "IKT", "digitalizqcija", "swde" }

RECURSIVE JoinWords(_)
JoinWords(ws) ==
    IF Len(ws) = 0 THEN ""
    ELSE IF Len(ws) = 1 THEN ws[1]
    ELSE ws[1] \o " " \o JoinWords(Tail(ws))

\* points around the display length: a ministry acronym or two topic words
\* followed by filler, 299, 300, 301 and 320 characters long
Filler10 == "nnnnnnnnn "
Filler50 == Filler10 \o Filler10 \o Filler10 \o Filler10 \o Filler10
Filler250 == Filler50 \o Filler50 \o Filler50 \o Filler50 \o Filler50
LongPoints ==
    { "VARAM " \o Filler250 \o SubSeq(Filler50, 1, 40) \o tail
      : tail \in { "nnn", "nnnn", "nnnnn", "nnnn nnnn nnnn nnnn nnnn" } }
    \cup { "dati IKT " \o Filler250 \o SubSeq(Filler50, 1, 40) \o "n", "swde " \o Filler250 \o Filler50 }

Points == { JoinWords(ws) : ws \in UNION { [1..n -> Words] : n \in 1..MaxWords } }
          \cup LongPoints

PointDate == "Monday"
PointTime == "10:00"
PointTitle == "Komisija"
PointLink == SAEIMA_BASE \o "/LIVS/SaeimasNotikumi.nsf/0/U1?OpenDocument"

PointStart ==
    /\ point_pc = "point"
    /\ point \in Points
    /\ point_items = << >>

PointIdle ==
    /\ point_pc = "idle"
    /\ point = ""
    /\ point_items = << >>

ClassifyPoint ==
    /\ point_pc = "point"
    /\ point_items' = point_items \o PointItems(point, PointDate, PointTime, PointTitle, PointLink)
    /\ point_pc' = "classified"
    /\ UNCHANGED point
    /\ UNCHANGED notPointVars

----------------------------------------------------------------------------
(* get_parliament_agenda *)

\* Days are counted from a Monday: day.weekday() is day % 7, Monday = 0.
Weekday(d) == d % 7

\* the abbreviated weekday names of "%a", Monday first
DayAbbr == << "Mon", "Tue", "Wed", "Thu", "Fri", "Sat", "Sun" >>

\* day.strftime(fmt): the abbreviated weekday name for "%a"; for the formats
\* that spell out the date, the text is given by the date and the format
Strftime(d, fmt) ==
    IF fmt = "%a" THEN DayAbbr[Weekday(d) + 1] ELSE [date |-> d, fmt |-> fmt]

\* without lines 512-513
DaysUntilMondayMutant(t) == (7 - Weekday(t)) % 7

\* (7 - today.weekday()) % 7, and 7 when that is 0
DaysUntilMonday(t) ==
    LET days_until_monday == (7 - Weekday(t)) % 7
    IN  IF days_until_monday = 0 THEN 7 ELSE days_until_monday

\* [next_monday + timedelta(days=i) for i in range(5)]
WeekDates(t) ==
    LET next_monday == t + DaysUntilMonday(t)
    IN  [i \in 1..5 |-> next_monday + (i - 1)]

\* t.replace(".", "")
RECURSIVE RemoveDots(_)
RemoveDots(t) ==
    IF t = "" THEN ""
    ELSE (IF SubSeq(t, 1, 1) = "." THEN "" ELSE SubSeq(t, 1, 1))
         \o RemoveDots(SubSeq(t, 2, Len(t)))

\* t.strip(), for the blanks of the modelled texts
RECURSIVE Strip(_)
Strip(t) ==
    IF t = "" THEN ""
    ELSE IF SubSeq(t, 1, 1) = " " THEN Strip(SubSeq(t, 2, Len(t)))
    ELSE IF SubSeq(t, Len(t), Len(t)) = " " THEN Strip(SubSeq(t, 1, Len(t) - 1))
    ELSE t

SittingUrl(unid) == SAEIMA_BASE \o "/LIVS/SaeimasNotikumi.nsf/0/" \o unid \o "?OpenDocument"

\* the items the points of one sitting's agenda append to results
RECURSIVE SittingItems(_, _, _)
SittingItems(points, d, sitting) ==
    IF points = << >> THEN << >>
    ELSE PointItems(Head(points), Strftime(d, "%A, %d.%m."),
                    Strip(RemoveDots(sitting.time)), sitting.title,
                    SittingUrl(sitting.unid))
         \o SittingItems(Tail(points), d, sitting)

\* the dict returned at lines 585-589
ParliamentResult(dates, its) ==
    [type |-> "dict",
     week_start |-> Strftime(dates[1], "%d.%m.%Y"),
     week_end |-> Strftime(dates[Len(dates)], "%d.%m.%Y"),
     items |-> its]

\* "except Exception as e" of lines 590-592: what the function returns
ParliamentExceptMutant == ParliamentResult(week_dates, << >>)
ParliamentExcept == None

\* "except Exception: continue" of lines 581-582, and the two "continue" of
\* lines 543-544 and 553-554: the results after a skipped sitting
SkipSittingMutant(res) == << >>
SkipSitting(res) == res

\* what the network can answer
MaxToday == 6
MaxSittings == 2
MaxPoints == 1
MaxFetches == 3

\* draw_PE() descriptors (time, title, unid) of a day's index, in page order
SittingPool == <<
    [time |-> "10.00 ", title |-> "Budzeta komisija", unid |-> "U1"],
    [time |-> "12.30", title |-> "Juridiskq komisija", unid |-> "U2"],
    [time |-> "14.00", title |-> "Valsts pqrvaldes komisija", unid |-> "U3"],
    [time |-> "16.00", title |-> "Sociqlo lietu komisija", unid |-> "U4"] >>
SittingLists == { SubSeq(SittingPool, 1, n) : n \in 0..Min(MaxSittings, Len(SittingPool)) }

\* agenda points of a sitting page, after the split at "N. " markers
AgendaPoints == { "1. VARAM", "2. Dazqdi" }
Agendas == UNION { [1..n -> AgendaPoints] : n \in 1..MaxPoints }

ParlStart ==
    /\ parl_pc = "start"
    /\ today \in 0..MaxToday
    /\ week_dates = << >>
    /\ day_i = 0
    /\ sittings = << >>
    /\ sit_i = 0
    /\ results = << >>
    /\ parl_result = Pending
    /\ parl_resp = ""
    /\ parl_fetches = 0

ParlIdle ==
    /\ parl_pc = "idle"
    /\ today = 0
    /\ week_dates = << >>
    /\ day_i = 0
    /\ sittings = << >>
    /\ sit_i = 0
    /\ results = << >>
    /\ parl_result = Pending
    /\ parl_resp = ""
    /\ parl_fetches = 0

\* lines 510-517
ComputeWeek ==
    /\ parl_pc = "start"
    /\ week_dates' = WeekDates(today)
    /\ results' = << >>
    /\ day_i' = 1
    /\ parl_pc' = "index"
    /\ UNCHANGED <<today, sittings, sit_i, parl_result, parl_resp, parl_fetches>>
    /\ UNCHANGED notParlVars

\* line 522 raises: no handler inside the loop, the one at line 590 returns
FetchIndexFails ==
    /\ parl_pc = "index"
    /\ day_i <= Len(week_dates)
    /\ parl_resp' = "index raised"
    /\ parl_result' = ParliamentExcept
    /\ parl_pc' = "done"
    /\ UNCHANGED <<today, week_dates, day_i, sittings, sit_i, results, parl_fetches>>
    /\ UNCHANGED notParlVars

\* lines 522-528: the day's index lists the sittings
FetchIndex ==
    /\ parl_pc = "index"
    /\ day_i <= Len(week_dates)
    /\ \E sits \in SittingLists :
          /\ parl_fetches + Len(sits) <= MaxFetches
          /\ sittings' = sits
    /\ sit_i' = 1
    /\ parl_resp' = "index"
    /\ parl_pc' = "sitting"
    /\ UNCHANGED <<today, week_dates, day_i, results, parl_result, parl_fetches>>
    /\ UNCHANGED notParlVars

\* line 535 raises, or a later line of the try block does: lines 581-582
FetchSittingFails ==
    /\ parl_pc = "sitting"
    /\ sit_i <= Len(sittings)
    /\ parl_resp' = "sitting raised"
    /\ results' = SkipSitting(results)
    /\ sit_i' = sit_i + 1
    /\ parl_fetches' = parl_fetches + 1
    /\ UNCHANGED <<parl_pc, today, week_dates, day_i, sittings, parl_result>>
    /\ UNCHANGED notParlVars

\* lines 539-544: the page has no textBody block
FetchSittingNoBody ==
    /\ parl_pc = "sitting"
    /\ sit_i <= Len(sittings)
    /\ parl_resp' = "no body"
    /\ results' = SkipSitting(results)
    /\ sit_i' = sit_i + 1
    /\ parl_fetches' = parl_fetches + 1
    /\ UNCHANGED <<parl_pc, today, week_dates, day_i, sittings, parl_result>>
    /\ UNCHANGED notParlVars

\* lines 546-554: the cleaned text of the block is empty
FetchSittingEmpty ==
    /\ parl_pc = "sitting"
    /\ sit_i <= Len(sittings)
    /\ parl_resp' = "empty text"
    /\ results' = SkipSitting(results)
    /\ sit_i' = sit_i + 1
    /\ parl_fetches' = parl_fetches + 1
    /\ UNCHANGED <<parl_pc, today, week_dates, day_i, sittings, parl_result>>
    /\ UNCHANGED notParlVars

\* lines 535-580: the page has an agenda; its points are classified
FetchSitting ==
    /\ parl_pc = "sitting"
    /\ sit_i <= Len(sittings)
    /\ \E points \in Agendas :
          results' = results \o SittingItems(points, week_dates[day_i], sittings[sit_i])
    /\ parl_resp' = "agenda"
    /\ sit_i' = sit_i + 1
    /\ parl_fetches' = parl_fetches + 1
    /\ UNCHANGED <<parl_pc, today, week_dates, day_i, sittings, parl_result>>
    /\ UNCHANGED notParlVars

\* the end of "for time_raw, title, unid in sittings": the next day
NextDay ==
    /\ parl_pc = "sitting"
    /\ sit_i > Len(sittings)
    /\ day_i' = day_i + 1
    /\ parl_pc' = "index"
    /\ UNCHANGED <<today, week_dates, sittings, sit_i, results, parl_result,
                   parl_resp, parl_fetches>>
    /\ UNCHANGED notParlVars

\* lines 584-589
ParlReturn ==
    /\ parl_pc = "index"
    /\ day_i > Len(week_dates)
    /\ parl_result' = ParliamentResult(week_dates, results)
    /\ parl_pc' = "done"
    /\ UNCHANGED <<today, week_dates, day_i, sittings, sit_i, results,
                   parl_resp, parl_fetches>>
    /\ UNCHANGED notParlVars

----------------------------------------------------------------------------
(* get_cabinet_cudars_items: the decision text of a protocol document *)

Digits == "0123456789"
IsDigit(c) == \E i \in 1..Len(Digits) : SubSeq(Digits, i, i) = c

\* the number of leading digits of t
RECURSIVE LeadingDigits(_)
LeadingDigits(t) ==
    IF t = "" \/ ~IsDigit(SubSeq(t, 1, 1)) THEN 0
    ELSE 1 + LeadingDigits(SubSeq(t, 2, Len(t)))

\* t consists of blanks only (possibly none)
RECURSIVE AllBlank(_)
AllBlank(t) ==
    t = "" \/ (SubSeq(t, 1, 1) = " " /\ AllBlank(SubSeq(t, 2, Len(t))))

\* re.match(r'^\d+-TA-\d+', line)
MatchesTaNumber(line) ==
    LET n == LeadingDigits(line)
    IN  /\ n >= 1
        /\ Slice(line, n + 1, n + 4) = "-TA-"
        /\ LeadingDigits(SubSeq(line, n + 5, Len(line))) >= 1

\* re.match(r'^\d+\.$', line)
MatchesOrdinal(line) ==
    LET n == LeadingDigits(line)
    IN  n >= 1 /\ SubSeq(line, n + 1, Len(line)) = "."

\* re.match(r'^\d+\.\s*$', text)
MatchesOrdinalBlank(text) ==
    LET n == LeadingDigits(text)
    IN  /\ n >= 1
        /\ Slice(text, n + 1, n + 1) = "."
        /\ AllBlank(SubSeq(text, n + 2, Len(text)))

\* '(c) Valsts' in line or 'atbalsts@' in line or 'Versija' in line
IsFooter(line) ==
    Contains("# Valsts", line) \/ Contains("atbalsts@", line) \/ Contains("Versija", line)

\* the loop with "continue" in the place of the "break" of line 447
RECURSIVE CaptureFromMutant(_, _, _, _)
CaptureFromMutant(ls, i, capture, acc) ==
    IF i > Len(ls) THEN acc
    ELSE LET line == ls[i] IN
         IF MatchesTaNumber(line) THEN CaptureFromMutant(ls, i + 1, "next", acc)
         ELSE IF capture = "next" /\ ~MatchesOrdinal(line)
         THEN CaptureFromMutant(ls, i + 1, capture, acc)
         ELSE LET capture2 == IF capture = "next" /\ MatchesOrdinal(line) THEN "TRUE" ELSE capture
              IN  IF capture2 = "TRUE" /\ ~IsFooter(line)
                  THEN CaptureFromMutant(ls, i + 1, capture2, Append(acc, i))
                  ELSE CaptureFromMutant(ls, i + 1, capture2, acc)

\* Lines 433-448: the loop over lines[i..], capture being FALSE, "next" or
\* TRUE, and acc the positions in lines of the decision_lines so far.
RECURSIVE CaptureFrom(_, _, _, _)
CaptureFrom(ls, i, capture, acc) ==
    IF i > Len(ls) THEN acc
    ELSE LET line == ls[i] IN
         IF MatchesTaNumber(line) THEN CaptureFrom(ls, i + 1, "next", acc)
         ELSE IF capture = "next" /\ ~MatchesOrdinal(line) THEN CaptureFrom(ls, i + 1, capture, acc)
         ELSE LET capture2 == IF capture = "next" /\ MatchesOrdinal(line) THEN "TRUE" ELSE capture
              IN  IF capture2 = "TRUE"
                  THEN IF IsFooter(line) THEN acc
                       ELSE CaptureFrom(ls, i + 1, capture2, Append(acc, i))
                  ELSE CaptureFrom(ls, i + 1, capture2, acc)

\* decision_lines after the loop
DecisionLines(ls) ==
    LET at == CaptureFrom(ls, 1, "FALSE", << >>)
    IN  [k \in 1..Len(at) |-> ls[at[k]]]

\* what the branch of line 452-453 appends for a marker dl
MarkerEntry(dl) == dl \o " "

\* Lines 450-457: the loop over decision_lines[i..], merged being the list so far
RECURSIVE MergeFrom(_, _, _)
MergeFrom(dls, i, merged) ==
    IF i > Len(dls) THEN merged
    ELSE LET dl == dls[i] IN
         IF MatchesOrdinal(dl) /\ merged # << >>
         THEN MergeFrom(dls, i + 1, Append(merged, MarkerEntry(dl)))
         ELSE IF merged # << >> /\ MatchesOrdinalBlank(merged[Len(merged)])
         THEN MergeFrom(dls, i + 1,
                        [merged EXCEPT ![Len(merged)] = merged[Len(merged)] \o dl])
         ELSE MergeFrom(dls, i + 1, Append(merged, dl))

Merged(dls) == MergeFrom(dls, 1, << >>)

\* " ".join(parts)
RECURSIVE JoinBlank(_)
JoinBlank(parts) ==
    IF parts = << >> THEN ""
    ELSE IF Len(parts) = 1 THEN parts[1]
    ELSE parts[1] \o " " \o JoinBlank(Tail(parts))

\* line 458: " ".join(merged).strip()[:600] if merged else ""
DecisionLen == 600
DecisionText(merged) ==
    IF merged # << >> THEN Prefix(Strip(JoinBlank(merged)), DecisionLen) ELSE ""

\* lines 431-458, from the non-empty stripped lines of the document
ProtocolDecision(ls) == DecisionText(Merged(DecisionLines(ls)))

\* the lines a protocol document is made of; a document has up to MaxLines
MaxLines == 5
LinePool == { "12-TA-345 Some Title", "1.", "First clause.", "2.",
              "# Valsts kanceleja", "7-TA-8 Versija 2" }
ExampleLines == << "12-TA-345 Some Title", "irrelevant", "1.", "First clause.",
                   "2.", "Second clause.", "# Valsts kanceleja" >>
Documents == UNION { [1..n -> LinePool] : n \in 0..MaxLines } \cup { ExampleLines }

DecStart ==
    /\ dec_pc = "lines"
    /\ lines \in Documents
    /\ decision = ""

DecIdle ==
    /\ dec_pc = "idle"
    /\ lines = << >>
    /\ decision = ""

ExtractDecision ==
    /\ dec_pc = "lines"
    /\ decision' = ProtocolDecision(lines)
    /\ dec_pc' = "extracted"
    /\ UNCHANGED lines
    /\ UNCHANGED notDecVars

----------------------------------------------------------------------------
(* _extract_essence *)

\* A cleaned annotation text is given by its length and by what the patterns
\* of _regex_extract_essence find in it: [len |-> n, found |-> text].
RegexExtractEssence(cleaned) == cleaned.found

\* what the backend answers for a prompt built from the two texts
AiExtractEssence(cleaned, legal_text) ==
    "AI: " \o cleaned.found \o (IF legal_text # "" THEN " / " \o legal_text ELSE "")

\* len(cleaned_text) > 200
MinAiLen == 200

\* the generative path whatever HAS_ANTHROPIC is
AttemptsAiMutant(cleaned, has_anthropic) == cleaned.len > MinAiLen

\* line 303
AttemptsAi(cleaned, has_anthropic) == has_anthropic /\ cleaned.len > MinAiLen

\* Lines 301-309; ai_raises tells whether _ai_extract_essence raises.
ExtractEssence(cleaned, legal_text, has_anthropic, ai_raises) ==
    IF AttemptsAi(cleaned, has_anthropic)
    THEN IF ai_raises THEN RegexExtractEssence(cleaned)
         ELSE AiExtractEssence(cleaned, legal_text)
    ELSE RegexExtractEssence(cleaned)

\* the handler of lines 306-308 letting the exception through
AiExceptMutant(cleaned) == [pc |-> "raised", out |-> ""]

\* "except Exception" of lines 306-308: where _extract_essence stands after
\* the handler and what it returns
AiExcept(cleaned) == [pc |-> "returned", out |-> RegexExtractEssence(cleaned)]

\* The calls of _extract_essence: annotation texts of lengths around 200,
\* with and without text for the patterns, a legal-act text or none, and
\* up to MaxCalls calls on the same arguments.
MaxCalls == 2
CleanedPool == [len : {0, 150, 199, 200, 201, 2500}, found : {"", "Pamatojums | Merkis"}]
AiAnswerPool == {"Pamatojums: a. Merkis: b. Risinqjums: c.", ""}

EssStart ==
    /\ ess_pc = "call"
    /\ HAS_ANTHROPIC \in BOOLEAN
    /\ cleaned_text \in CleanedPool
    /\ ess_legal_text \in {"", "Grozyjumi"}
    /\ ai_attempts = 0
    /\ ess_resp = ""
    /\ ess_out = ""
    /\ ess_calls = 1
    /\ ess_first = ""

EssIdle ==
    /\ ess_pc = "idle"
    /\ cleaned_text = [len |-> 0, found |-> ""]
    /\ ess_legal_text = ""
    /\ ai_attempts = 0
    /\ ess_resp = ""
    /\ ess_out = ""
    /\ ess_calls = 0
    /\ ess_first = ""

\* line 303 is false: line 309
RegexOnly ==
    /\ ess_pc = "call"
    /\ ~AttemptsAi(cleaned_text, HAS_ANTHROPIC)
    /\ ess_out' = RegexExtractEssence(cleaned_text)
    /\ ess_resp' = "regex"
    /\ ess_pc' = "returned"
    /\ UNCHANGED <<cleaned_text, ess_legal_text, ai_attempts, ess_calls, ess_first>>
    /\ UNCHANGED notEssVars

\* line 303 is true: _ai_extract_essence is called at line 305
AiAttempt ==
    /\ ess_pc = "call"
    /\ AttemptsAi(cleaned_text, HAS_ANTHROPIC)
    /\ ai_attempts' = ai_attempts + 1
    /\ ess_pc' = "ai"
    /\ UNCHANGED <<cleaned_text, ess_legal_text, ess_resp, ess_out, ess_calls, ess_first>>
    /\ UNCHANGED notEssVars

\* line 305 returns message.content[0].text (line 268)
AiReturns ==
    /\ ess_pc = "ai"
    /\ ess_out' \in AiAnswerPool \cup {AiExtractEssence(cleaned_text, ess_legal_text)}
    /\ ess_resp' = "ai"
    /\ ess_pc' = "returned"
    /\ UNCHANGED <<cleaned_text, ess_legal_text, ai_attempts, ess_calls, ess_first>>
    /\ UNCHANGED notEssVars

\* _ai_extract_essence raises (no client, timeout, an answer without
\* content): lines 306-308
AiRaises ==
    /\ ess_pc = "ai"
    /\ ess_out' = AiExcept(cleaned_text).out
    /\ ess_resp' = "ai raised"
    /\ ess_pc' = AiExcept(cleaned_text).pc
    /\ UNCHANGED <<cleaned_text, ess_legal_text, ai_attempts, ess_calls, ess_first>>
    /\ UNCHANGED notEssVars

\* the caller calls _extract_essence again with the same arguments
CallAgain ==
    /\ ess_pc = "returned"
    /\ ess_calls < MaxCalls
    /\ ess_first' = ess_out
    /\ ess_calls' = ess_calls + 1
    /\ ess_pc' = "call"
    /\ UNCHANGED <<cleaned_text, ess_legal_text, ai_attempts, ess_resp, ess_out>>
    /\ UNCHANGED notEssVars

----------------------------------------------------------------------------
(* get_cabinet_cudars_items *)

BASE_URL == "https://tapportals.mk.gov.lv"

HexDigits == "0123456789abcdef"
RECURSIVE AllHex(_)
AllHex(t) ==
    t = "" \/ ( /\ \E i \in 1..Len(HexDigits) : SubSeq(HexDigits, i, i) = SubSeq(t, 1, 1)
                /\ AllHex(SubSeq(t, 2, Len(t))) )

MeetingsPrefix == "/meetings/cabinet_ministers/"

\* the data-url value has the shape of lines 322-324:
\* /meetings/cabinet_ministers/ and 8-4-4-4-12 hexadecimal digits
IsMeetingPath(url) ==
    LET n == Len(MeetingsPrefix)
        id == SubSeq(url, n + 1, Len(url))
    IN  /\ Len(url) = n + 36
        /\ SubSeq(url, 1, n) = MeetingsPrefix
        /\ AllHex(SubSeq(id, 1, 8)) /\ SubSeq(id, 9, 9) = "-"
        /\ AllHex(SubSeq(id, 10, 13)) /\ SubSeq(id, 14, 14) = "-"
        /\ AllHex(SubSeq(id, 15, 18)) /\ SubSeq(id, 19, 19) = "-"
        /\ AllHex(SubSeq(id, 20, 23)) /\ SubSeq(id, 24, 24) = "-"
        /\ AllHex(SubSeq(id, 25, 36))

\* The meetings index is the sequence of its rows, [url |-> the data-url
\* value, date |-> the date/time text of the row, "" when it has none].
\* re.search of lines 322-325: the index of the first matching row, 0 if none
FirstMeeting(rows) ==
    IF \E k \in 1..Len(rows) : IsMeetingPath(rows[k].url)
    THEN CHOOSE k \in 1..Len(rows) :
            /\ IsMeetingPath(rows[k].url)
            /\ \A j \in 1..(k - 1) : ~IsMeetingPath(rows[j].url)
    ELSE 0

\* lines 334-339: the first date/time text at or after row k
MeetingDate(rows, k) ==
    IF \E j \in k..Len(rows) : rows[j].date # ""
    THEN rows[CHOOSE j \in k..Len(rows) :
                 rows[j].date # "" /\ \A h \in k..(j - 1) : rows[h].date = ""].date
    ELSE "Unknown date"

\* what the comparison of line 379 accepts
SectionPrecedesMutant(item_pos, sec_pos) == item_pos >= sec_pos
SectionPrecedes(item_pos, sec_pos) == item_pos > sec_pos

\* Lines 377-381: sections[1..n] scanned from the last to the first
RECURSIVE SectionOf(_, _, _)
SectionOf(pos, secs, n) ==
    IF n = 0 THEN "Unknown"
    ELSE IF SectionPrecedes(pos, secs[n].pos) THEN secs[n].name
    ELSE SectionOf(pos, secs, n - 1)

\* lines 376-381
AssignSections(its, secs) ==
    [k \in 1..Len(its) |->
        [pos |-> its[k].pos, ta_link |-> its[k].ta_link, ta_id |-> its[k].ta_id,
         title |-> its[k].title, reporter |-> its[k].reporter,
         section |-> SectionOf(its[k].pos, secs, Len(secs))]]

\* the search without (?i)
IsCudarsMutant(reporter) ==
    Contains("cudars", reporter) \/ Contains("&udars", reporter)

\* re.search(r'(?i)[&c]udars', reporter)
IsCudars(reporter) ==
    Contains("cudars", Lower(reporter)) \/ Contains("&udars", Lower(reporter))

\* lines 384-387
RECURSIVE FilterCudars(_)
FilterCudars(its) ==
    IF its = << >> THEN << >>
    ELSE (IF IsCudars(its[1].reporter) THEN << its[1] >> ELSE << >>)
         \o FilterCudars(Tail(its))

\* [s["name"] for s in sections]
SectionNames(secs) == [k \in 1..Len(secs) |-> secs[k].name]

\* the dict returned at lines 466-471
CabinetResult(date, path, its, secs) ==
    [type |-> "dict", meeting_date |-> date, meeting_url |-> BASE_URL \o path,
     cudars_items |-> its, all_sections |-> SectionNames(secs)]

\* "except Exception as e" of lines 472-474, and "return None" of line 328
CabinetExceptMutant == CabinetResult("Unknown date", "", << >>, << >>)
CabinetExcept == None

\* "except Exception: pass" of lines 410-411: the step of the item's
\* enrichment that follows the handler
LegalActExceptMutant == "protocol"
LegalActExcept == "annotation"

\* "except Exception as e" of lines 461-462: the matched items after the
\* handler, item i being the one that failed
ItemExceptMutant(its, i) == SubSeq(its, 1, i - 1) \o SubSeq(its, i + 1, Len(its))
ItemExcept(its, i) == its

\* what the network can answer
MaxRows == 1
MaxItems == 2

RowPool == { [url |-> MeetingsPrefix \o "search_form", date |-> ""],
             [url |-> MeetingsPrefix \o "0a1b2c3d-1111-2222-3333-444455556666",
              date |-> "11.11.2026. 10:00"],
             [url |-> MeetingsPrefix \o "0a1b2c3d-1111-2222-3333-4444", date |-> ""] }
IndexPages == UNION { [1..n -> RowPool] : n \in 0..MaxRows }

\* agenda pages: up to MaxItems recognised items, item k at offset 100 * k,
\* and section headings at fixed offsets
ReporterPool == { "R. Cudars", "R. Jansons" }
ItemAt(k, reporter) ==
    [pos |-> 100 * k, ta_link |-> BASE_URL \o "/legal_acts/" \o SubSeq(Digits, k + 1, k + 1),
     ta_id |-> "26-TA-" \o SubSeq(Digits, k + 1, k + 1), title |-> "Jautqjums " \o SubSeq(Digits, k + 1, k + 1),
     reporter |-> reporter]
ItemLists == UNION { { [k \in 1..n |-> ItemAt(k, f[k])] : f \in [1..n -> ReporterPool] }
                     : n \in 0..MaxItems }
SectionLists == { << >>,
                  << [name |-> "A", pos |-> 50] >>,
                  << [name |-> "A", pos |-> 50], [name |-> "", pos |-> 150] >> }

\* cleaned annotation texts and protocol documents
AnnotationPool == { [len |-> 150, found |-> "Pamatojums | Merkis"],
                    [len |-> 2500, found |-> ""] }
LegalActPool == { "Grozyjumi" }
ProtocolPool == { << "26-TA-1 Title", "1.", "Pienemt.", "Versija 2" >>,
                  << "Protokols" >> }

CabStart ==
    /\ cab_pc = "index"
    /\ HAS_ANTHROPIC \in BOOLEAN
    /\ html = << >>
    /\ meeting_path = ""
    /\ meeting_date = ""
    /\ agenda_html = << >>
    /\ sections = << >>
    /\ items = << >>
    /\ cudars_items = << >>
    /\ item_i = 0
    /\ la_html = [am |-> FALSE, lm |-> FALSE, pm |-> FALSE]
    /\ legal_act_text = ""
    /\ cab_resp = ""
    /\ cab_result = Pending

\* the local variables of get_cabinet_cudars_items before its call
CabLocalsIdle ==
    /\ cab_pc = "idle"
    /\ html = << >>
    /\ meeting_path = ""
    /\ meeting_date = ""
    /\ agenda_html = << >>
    /\ sections = << >>
    /\ items = << >>
    /\ cudars_items = << >>
    /\ item_i = 0
    /\ la_html = [am |-> FALSE, lm |-> FALSE, pm |-> FALSE]
    /\ legal_act_text = ""
    /\ cab_resp = ""
    /\ cab_result = Pending

CabIdle ==
    /\ HAS_ANTHROPIC = FALSE
    /\ CabLocalsIdle

\* line 318 raises
FetchMeetingsFails ==
    /\ cab_pc = "index"
    /\ cab_resp' = "index raised"
    /\ cab_result' = CabinetExcept
    /\ cab_pc' = "done"
    /\ UNCHANGED <<HAS_ANTHROPIC, html, meeting_path, meeting_date, agenda_html, sections,
                   items, cudars_items, item_i, la_html, legal_act_text>>
    /\ UNCHANGED notCabVars

\* lines 318-339: the index is fetched and searched for the next sitting
FetchMeetings ==
    /\ cab_pc = "index"
    /\ \E rows \in IndexPages :
          /\ html' = rows
          /\ IF FirstMeeting(rows) = 0
             THEN /\ cab_resp' = "no meeting"
                  /\ cab_result' = CabinetExcept
                  /\ cab_pc' = "done"
                  /\ UNCHANGED <<meeting_path, meeting_date>>
             ELSE /\ cab_resp' = "index"
                  /\ meeting_path' = rows[FirstMeeting(rows)].url
                  /\ meeting_date' = MeetingDate(rows, FirstMeeting(rows))
                  /\ cab_pc' = "agenda"
                  /\ UNCHANGED cab_result
    /\ UNCHANGED <<HAS_ANTHROPIC, agenda_html, sections, items, cudars_items, item_i,
                   la_html, legal_act_text>>
    /\ UNCHANGED notCabVars

\* line 342 raises
FetchAgendaFails ==
    /\ cab_pc = "agenda"
    /\ cab_resp' = "agenda raised"
    /\ cab_result' = CabinetExcept
    /\ cab_pc' = "done"
    /\ UNCHANGED <<HAS_ANTHROPIC, html, meeting_path, meeting_date, agenda_html, sections,
                   items, cudars_items, item_i, la_html, legal_act_text>>
    /\ UNCHANGED notCabVars

\* lines 342-387: the agenda page is fetched; sections and items are
\* extracted, the items get their sections and are filtered by reporter
FetchAgenda ==
    /\ cab_pc = "agenda"
    /\ \E secs \in SectionLists, its \in ItemLists :
          /\ agenda_html' = [sections |-> secs, items |-> its]
          /\ sections' = secs
          /\ items' = AssignSections(its, secs)
          /\ cudars_items' = FilterCudars(AssignSections(its, secs))
    /\ item_i' = 1
    /\ cab_resp' = "agenda"
    /\ cab_pc' = "item"
    /\ UNCHANGED <<HAS_ANTHROPIC, html, meeting_path, meeting_date, la_html,
                   legal_act_text, cab_result>>
    /\ UNCHANGED notCabVars

\* the item of cudars_items[i] with essence and decision set
WithFields(it, ess, dec) ==
    [pos |-> it.pos, ta_link |-> it.ta_link, ta_id |-> it.ta_id, title |-> it.title,
     reporter |-> it.reporter, section |-> it.section,
     essence |-> ess, decision |-> dec]

\* lines 390-392: the next matched item gets empty essence and decision
BeginItem ==
    /\ cab_pc = "item"
    /\ item_i <= Len(cudars_items)
    /\ cudars_items' = [cudars_items EXCEPT ![item_i] = WithFields(@, "", "")]
    /\ cab_pc' = "detail"
    /\ UNCHANGED <<HAS_ANTHROPIC, html, meeting_path, meeting_date, agenda_html, sections,
                   items, item_i, la_html, legal_act_text, cab_resp, cab_result>>
    /\ UNCHANGED notCabVars

\* an exception inside the try block of lines 393-460 reaches lines 461-462
ItemFails(resp) ==
    /\ cab_resp' = resp
    /\ cudars_items' = ItemExcept(cudars_items, item_i)
    /\ item_i' = item_i + 1
    /\ cab_pc' = "item"
    /\ UNCHANGED <<HAS_ANTHROPIC, html, meeting_path, meeting_date, agenda_html, sections,
                   items, la_html, legal_act_text, cab_result>>
    /\ UNCHANGED notCabVars

\* line 394 raises
FetchDetailFails ==
    /\ cab_pc = "detail"
    /\ ItemFails("detail raised")

\* lines 394-401: the detail page and the links found in it
FetchDetail ==
    /\ cab_pc = "detail"
    /\ la_html' \in [am : BOOLEAN, lm : BOOLEAN, pm : BOOLEAN]
    /\ legal_act_text' = ""
    /\ cab_resp' = "detail"
    /\ cab_pc' = "legal"
    /\ UNCHANGED <<HAS_ANTHROPIC, html, meeting_path, meeting_date, agenda_html, sections,
                   items, cudars_items, item_i, cab_result>>
    /\ UNCHANGED notCabVars

\* line 402: no draft legal act link
NoLegalAct ==
    /\ cab_pc = "legal"
    /\ ~la_html.lm
    /\ cab_pc' = "annotation"
    /\ UNCHANGED <<HAS_ANTHROPIC, html, meeting_path, meeting_date, agenda_html, sections,
                   items, cudars_items, item_i, la_html, legal_act_text, cab_resp,
                   cab_result>>
    /\ UNCHANGED notCabVars

\* line 404 raises: lines 410-411 pass
FetchLegalActFails ==
    /\ cab_pc = "legal"
    /\ la_html.lm
    /\ cab_resp' = "legal act raised"
    /\ cab_pc' = LegalActExcept
    /\ UNCHANGED <<HAS_ANTHROPIC, html, meeting_path, meeting_date, agenda_html, sections,
                   items, cudars_items, item_i, la_html, legal_act_text, cab_result>>
    /\ UNCHANGED notCabVars

\* lines 404-409
FetchLegalAct ==
    /\ cab_pc = "legal"
    /\ la_html.lm
    /\ legal_act_text' \in LegalActPool
    /\ cab_resp' = "legal act"
    /\ cab_pc' = "annotation"
    /\ UNCHANGED <<HAS_ANTHROPIC, html, meeting_path, meeting_date, agenda_html, sections,
                   items, cudars_items, item_i, la_html, cab_result>>
    /\ UNCHANGED notCabVars

\* line 413: no annotation link
NoAnnotation ==
    /\ cab_pc = "annotation"
    /\ ~la_html.am
    /\ cab_pc' = "protocol"
    /\ UNCHANGED <<HAS_ANTHROPIC, html, meeting_path, meeting_date, agenda_html, sections,
                   items, cudars_items, item_i, la_html, legal_act_text, cab_resp,
                   cab_result>>
    /\ UNCHANGED notCabVars

\* line 414 raises
FetchAnnotationFails ==
    /\ cab_pc = "annotation"
    /\ la_html.am
    /\ ItemFails("annotation raised")

\* lines 414-421
FetchAnnotation ==
    /\ cab_pc = "annotation"
    /\ la_html.am
    /\ \E cleaned \in AnnotationPool, ai_raises \in BOOLEAN :
          cudars_items' = [cudars_items EXCEPT ![item_i] =
              WithFields(@, ExtractEssence(cleaned, legal_act_text, HAS_ANTHROPIC, ai_raises),
                         @.decision)]
    /\ cab_resp' = "annotation"
    /\ cab_pc' = "protocol"
    /\ UNCHANGED <<HAS_ANTHROPIC, html, meeting_path, meeting_date, agenda_html, sections,
                   items, item_i, la_html, legal_act_text, cab_result>>
    /\ UNCHANGED notCabVars

\* line 425: no protocol decision link; line 460
NoProtocol ==
    /\ cab_pc = "protocol"
    /\ ~la_html.pm
    /\ item_i' = item_i + 1
    /\ cab_pc' = "item"
    /\ UNCHANGED <<HAS_ANTHROPIC, html, meeting_path, meeting_date, agenda_html, sections,
                   items, cudars_items, la_html, legal_act_text, cab_resp, cab_result>>
    /\ UNCHANGED notCabVars

\* line 426 raises
FetchProtocolFails ==
    /\ cab_pc = "protocol"
    /\ la_html.pm
    /\ ItemFails("protocol raised")

\* lines 426-460
FetchProtocol ==
    /\ cab_pc = "protocol"
    /\ la_html.pm
    /\ \E ls \in ProtocolPool :
          cudars_items' = [cudars_items EXCEPT ![item_i] =
              WithFields(@, @.essence, ProtocolDecision(ls))]
    /\ cab_resp' = "protocol"
    /\ item_i' = item_i + 1
    /\ cab_pc' = "item"
    /\ UNCHANGED <<HAS_ANTHROPIC, html, meeting_path, meeting_date, agenda_html, sections,
                   items, la_html, legal_act_text, cab_result>>
    /\ UNCHANGED notCabVars

\* lines 464-471
CabReturn ==
    /\ cab_pc = "item"
    /\ item_i > Len(cudars_items)
    /\ cab_result' = CabinetResult(meeting_date, meeting_path, cudars_items, sections)
    /\ cab_pc' = "done"
    /\ UNCHANGED <<HAS_ANTHROPIC, html, meeting_path, meeting_date, agenda_html, sections,
                   items, cudars_items, item_i, la_html, legal_act_text, cab_resp>>
    /\ UNCHANGED notCabVars

\* Section assignment on its own (lines 375-381): sections in page order
\* at increasing offsets, items at offsets of the same page.
MaxSections == 3
MaxSectionItems == 3
Offsets == { 0, 10, 50, 100, 150, 250, 300 }
HeadingPool == << "A", "B", "C", "D", "E" >>

\* the members of a set of offsets in increasing order
RECURSIVE Ascending(_)
Ascending(S) ==
    IF S = {} THEN << >>
    ELSE LET m == CHOOSE x \in S : \A y \in S : x <= y
         IN  << m >> \o Ascending(S \ {m})

OffsetLists(max) == { Ascending(S) : S \in { T \in SUBSET Offsets : Cardinality(T) <= max } }

\* headings at the offsets ps; a heading's cleaned text may be empty
SectionsAt(ps) ==
    { [k \in 1..Len(ps) |-> [name |-> IF k \in E THEN "" ELSE HeadingPool[k], pos |-> ps[k]]]
      : E \in SUBSET (1..Len(ps)) }

ItemAtOffset(pos) ==
    [pos |-> pos, ta_link |-> BASE_URL \o "/legal_acts/1", ta_id |-> "26-TA-1",
     title |-> "Jautqjums", reporter |-> "R. Cudars"]

SectionStart ==
    /\ cab_pc = "assign"
    /\ HAS_ANTHROPIC = FALSE
    /\ html = << >>
    /\ meeting_path = ""
    /\ meeting_date = ""
    /\ agenda_html = << >>
    /\ \E ps \in OffsetLists(MaxSections) : sections \in SectionsAt(ps)
    /\ \E ps \in OffsetLists(MaxSectionItems) :
          items = [k \in 1..Len(ps) |-> ItemAtOffset(ps[k])]
    /\ cudars_items = << >>
    /\ item_i = 0
    /\ la_html = [am |-> FALSE, lm |-> FALSE, pm |-> FALSE]
    /\ legal_act_text = ""
    /\ cab_resp = ""
    /\ cab_result = Pending

\* lines 375-381
AssignStep ==
    /\ cab_pc = "assign"
    /\ items' = AssignSections(items, sections)
    /\ cab_pc' = "assigned"
    /\ UNCHANGED <<HAS_ANTHROPIC, html, meeting_path, meeting_date, agenda_html, sections,
                   cudars_items, item_i, la_html, legal_act_text, cab_resp, cab_result>>
    /\ UNCHANGED notCabVars

----------------------------------------------------------------------------
(* get_eaddress_data *)

\* Dates are days counted from Monday 2026-11-02, as in Weekday above; the
\* monthly snapshots carry the first day of a month.

\* x or y
Or(x, y) == IF x = 0 THEN y ELSE x

\* round(n / d) for d > 0: Python rounds to the nearest integer, a tie to
\* the even one
RoundDiv(n, d) ==
    LET q == n \div d
        r == n - q * d
    IN  IF 2 * r < d THEN q
        ELSE IF 2 * r > d THEN q + 1
        ELSE IF q % 2 = 0 THEN q ELSE q + 1

\* _fetch_eaddress_resource (lines 115-127): a row whose DATUMS or counts
\* do not parse is skipped
FetchEaddressResource(rows) ==
    LET parsed == SelectSeq(rows, LAMBDA r : r.valid)
    IN  [k \in 1..Len(parsed) |->
            [date |-> parsed[k].DATUMS,
             label |-> Strftime(parsed[k].DATUMS, "%b %Y"),
             fiziska |-> parsed[k].fiziska,
             juridiska |-> parsed[k].juridiska]]

\* _build_daily_rates
BuildDailyRates(all_records) ==
    [i \in 1..(Len(all_records) - 1) |->
        LET prev_r == all_records[i]
            curr_r == all_records[i + 1]
            days_diff == Or(curr_r.date - prev_r.date, 1)
        IN  [date |-> curr_r.date,
             fiziska |-> RoundDiv(curr_r.fiziska - prev_r.fiziska, days_diff),
             juridiska |-> RoundDiv(curr_r.juridiska - prev_r.juridiska, days_diff)]]

\* lines 163-174: a month's count over the days to the next record, 30
\* for the last record
DeactRates(records) ==
    [i \in 1..Len(records) |->
        LET r == records[i]
            days_in_month == IF i + 1 <= Len(records)
                             THEN Or(records[i + 1].date - r.date, 30)
                             ELSE 30
        IN  [date |-> r.date,
             fiziska |-> RoundDiv(r.fiziska, days_in_month),
             juridiska |-> RoundDiv(r.juridiska, days_in_month)]]

\* line 155-156: the records of the last 3 years; datetime.now() is later
\* than the midnight of today, so a midnight date passes when it is later
\* than today - 3 * 365
ChartRecords(records, t) ==
    SelectSeq(records, LAMBDA r : r.date > t - 3 * 365)

\* int(md5(f"{day.isoformat()}-{category}").hexdigest()[:8], 16), of which
\* the leading 16 bits are kept: the values of md5 for the days 2026-10-26
\* (day -7) to 2026-11-14 (day 12) and the categories fiz, jur, deact_fiz,
\* deact_jur
Md5Rows == <<
    << 1234, 60538, 21486, 24070 >>,
    << 64639, 1326, 58158, 45949 >>,
    << 7301, 36594, 40494, 44477 >>,
    << 27250, 15348, 44387, 14510 >>,
    << 62084, 54754, 53038, 26333 >>,
    << 17189, 11540, 63028, 11411 >>,
    << 46577, 23460, 17202, 29874 >>,
    << 48540, 2668, 23154, 43664 >>,
    << 33745, 45967, 47941, 45845 >>,
    << 31050, 3801, 56318, 50631 >>,
    << 44278, 26968, 33795, 61393 >>,
    << 31303, 14614, 43474, 1817 >>,
    << 60877, 64613, 51803, 53278 >>,
    << 25561, 9491, 34089, 52661 >>,
    << 526, 46931, 7756, 16762 >>,
    << 34243, 12003, 5344, 47201 >>,
    << 39375, 27446, 17584, 28958 >>,
    << 32865, 26864, 3298, 442 >>,
    << 11033, 63535, 56989, 6243 >>,
    << 42162, 52449, 10126, 65300 >>
>>

CategoryIndex(category) ==
    CASE category = "fiz" -> 1
      [] category = "jur" -> 2
      [] category = "deact_fiz" -> 3
      [] category = "deact_jur" -> 4

\* a hash seeded by the progress of the run as well
Md5PrefixMutant(day, category) ==
    Md5Rows[day + 8 + Len(streak_fiziska)][CategoryIndex(category)]

Md5Prefix(day, category) == Md5Rows[day + 8][CategoryIndex(category)]

\* 0xFFFFFFFF, to the same 16 bits
HashDen == 65535

\* vary without the floor at 0
VaryMutant(avg, day, category) ==
    RoundDiv(avg * (4 * HashDen + 2 * Md5Prefix(day, category)), 5 * HashDen)

\* vary (lines 177-181): frac = hash / 0xFFFFFFFF, offset = (frac - 0.5) * 0.4,
\* so that avg * (1 + offset) = avg * (4 + 2 * frac) / 5
Vary(avg, day, category) ==
    Max(0, RoundDiv(avg * (4 * HashDen + 2 * Md5Prefix(day, category)), 5 * HashDen))

\* the scan of line 187 without reversed(): the first period that starts on
\* or before the day
FindRateMutant(rates, day) ==
    LET started == { k \in 1..Len(rates) : day >= rates[k].date }
    IN  IF rates = << >> THEN [fiziska |-> 0, juridiska |-> 0]
        ELSE IF started = {} THEN [fiziska |-> rates[Len(rates)].fiziska,
                                   juridiska |-> rates[Len(rates)].juridiska]
        ELSE LET k == CHOOSE k \in started : \A h \in started : k <= h
             IN  [fiziska |-> rates[k].fiziska, juridiska |-> rates[k].juridiska]

\* _find_rate (lines 183-192): the last rate in the list whose period starts
\* on or before the day; the last rate when there is none; 0 without rates
FindRate(rates, day) ==
    LET started == { k \in 1..Len(rates) : day >= rates[k].date }
    IN  IF rates = << >> THEN [fiziska |-> 0, juridiska |-> 0]
        ELSE IF started = {} THEN [fiziska |-> rates[Len(rates)].fiziska,
                                   juridiska |-> rates[Len(rates)].juridiska]
        ELSE LET k == CHOOSE k \in started : \A h \in started : h <= k
             IN  [fiziska |-> rates[k].fiziska, juridiska |-> rates[k].juridiska]

\* lines 206-217
StreakEntry(day, activated, deactivated) ==
    [date |-> Strftime(day, "%a"), activated |-> activated,
     deactivated |-> deactivated, net |-> activated - deactivated]

\* range(7, 0, -1)
StreakDays == 7

\* the dict with the first entries as yesterday's
EaddressResultMutant(records, fiz, jur) ==
    [type |-> "dict",
     records |-> records,
     yesterday_fiziska |-> fiz[1],
     yesterday_juridiska |-> jur[1],
     streak_fiziska |-> fiz,
     streak_juridiska |-> jur]

\* lines 220-226
EaddressResult(records, fiz, jur) ==
    [type |-> "dict",
     records |-> records,
     yesterday_fiziska |-> fiz[Len(fiz)],
     yesterday_juridiska |-> jur[Len(jur)],
     streak_fiziska |-> fiz,
     streak_juridiska |-> jur]

\* lines 227-229
EaddressExcept == None

\* The run day, and the monthly snapshots the portal returns: windows of
\* consecutive rows, in ascending order of date (sort=_id asc); the portal
\* has two rows for one month.
MaxEaToday == 1
MaxRecords == 3
MonthStarts == << -62, -32, -1, -1 >>

\* cumulative activation totals, one of them lower than the others
ActCountPool ==
    { [fiziska |-> 1000, juridiska |-> 500],
      [fiziska |-> 1300, juridiska |-> 500],
      [fiziska |-> 700, juridiska |-> 530] }

\* monthly deactivation counts
DeactCountPool ==
    { [fiziska |-> 0, juridiska |-> 45],
      [fiziska |-> 90, juridiska |-> 15] }

Windows(max) ==
    { SubSeq(MonthStarts, a, b) :
        <<a, b>> \in { w \in (1..(Len(MonthStarts) + 1)) \X (0..Len(MonthStarts)) :
                          w[1] <= w[2] + 1 /\ w[2] - w[1] + 1 <= max } }

RowLists(pool, max) ==
    UNION { { [k \in 1..Len(w) |->
                 [valid |-> TRUE, DATUMS |-> w[k],
                  fiziska |-> c[k].fiziska, juridiska |-> c[k].juridiska]]
              : c \in [1..Len(w) -> pool] }
            : w \in Windows(max) }

\* a row whose DATUMS is not a date
BadRow == [valid |-> FALSE, DATUMS |-> 0, fiziska |-> 0, juridiska |-> 0]

EaStart ==
    /\ ea_pc = "act"
    /\ ea_today \in 0..MaxEaToday
    /\ act_records = << >>
    /\ deact_records = << >>
    /\ chart_records = << >>
    /\ act_rates = << >>
    /\ deact_rates = << >>
    /\ days_ago = StreakDays
    /\ streak_fiziska = << >>
    /\ streak_juridiska = << >>
    /\ ea_resp = ""
    /\ ea_result = Pending

EaIdle ==
    /\ ea_pc = "idle"
    /\ ea_today = 0
    /\ act_records = << >>
    /\ deact_records = << >>
    /\ chart_records = << >>
    /\ act_rates = << >>
    /\ deact_rates = << >>
    /\ days_ago = 0
    /\ streak_fiziska = << >>
    /\ streak_juridiska = << >>
    /\ ea_resp = ""
    /\ ea_result = Pending

\* line 151 raises: lines 227-229
FetchActFails ==
    /\ ea_pc = "act"
    /\ ea_resp' = "act raised"
    /\ ea_result' = EaddressExcept
    /\ ea_pc' = "done"
    /\ UNCHANGED <<act_records, deact_records, chart_records, act_rates, deact_rates,
                   ea_today, days_ago, streak_fiziska, streak_juridiska>>
    /\ UNCHANGED notEaVars

\* line 151
FetchAct ==
    /\ ea_pc = "act"
    /\ \E rows \in RowLists(ActCountPool, MaxRecords), bad \in BOOLEAN :
          /\ act_records' = FetchEaddressResource(IF bad THEN << BadRow >> \o rows ELSE rows)
          /\ ea_resp' = IF bad THEN "act row skipped" ELSE "act ok"
    /\ ea_pc' = "deact"
    /\ UNCHANGED <<deact_records, chart_records, act_rates, deact_rates, ea_today,
                   days_ago, streak_fiziska, streak_juridiska, ea_result>>
    /\ UNCHANGED notEaVars

\* line 152 raises: lines 227-229
FetchDeactFails ==
    /\ ea_pc = "deact"
    /\ ea_resp' = "deact raised"
    /\ ea_result' = EaddressExcept
    /\ ea_pc' = "done"
    /\ UNCHANGED <<act_records, deact_records, chart_records, act_rates, deact_rates,
                   ea_today, days_ago, streak_fiziska, streak_juridiska>>
    /\ UNCHANGED notEaVars

\* line 152
FetchDeact ==
    /\ ea_pc = "deact"
    /\ \E rows \in RowLists(DeactCountPool, MaxRecords) :
          deact_records' = FetchEaddressResource(rows)
    /\ ea_pc' = "rates"
    /\ UNCHANGED <<act_records, chart_records, act_rates, deact_rates, ea_today,
                   days_ago, streak_fiziska, streak_juridiska, ea_resp, ea_result>>
    /\ UNCHANGED notEaVars

\* lines 155-174
BuildRates ==
    /\ ea_pc = "rates"
    /\ chart_records' = ChartRecords(act_records, ea_today)
    /\ act_rates' = BuildDailyRates(act_records)
    /\ deact_rates' = DeactRates(deact_records)
    /\ ea_pc' = "streak"
    /\ UNCHANGED <<act_records, deact_records, ea_today, days_ago, streak_fiziska,
                   streak_juridiska, ea_resp, ea_result>>
    /\ UNCHANGED notEaVars

\* one turn of the loop of lines 198-217
StreakDay ==
    /\ ea_pc = "streak"
    /\ days_ago >= 1
    /\ LET day == ea_today - days_ago
           act == FindRate(act_rates, day)
           deact == FindRate(deact_rates, day)
           a_fiz == Vary(act.fiziska, day, "fiz")
           a_jur == Vary(act.juridiska, day, "jur")
           d_fiz == Vary(deact.fiziska, day, "deact_fiz")
           d_jur == Vary(deact.juridiska, day, "deact_jur")
       IN  /\ streak_fiziska' = Append(streak_fiziska, StreakEntry(day, a_fiz, d_fiz))
           /\ streak_juridiska' = Append(streak_juridiska, StreakEntry(day, a_jur, d_jur))
    /\ days_ago' = days_ago - 1
    /\ ea_pc' = IF days_ago = 1 THEN "return" ELSE "streak"
    /\ UNCHANGED <<act_records, deact_records, chart_records, act_rates, deact_rates,
                   ea_today, ea_resp, ea_result>>
    /\ UNCHANGED notEaVars

\* lines 219-226
EaReturn ==
    /\ ea_pc = "return"
    /\ ea_result' = EaddressResult(chart_records, streak_fiziska, streak_juridiska)
    /\ ea_pc' = "done"
    /\ UNCHANGED <<act_records, deact_records, chart_records, act_rates, deact_rates,
                   ea_today, days_ago, streak_fiziska, streak_juridiska, ea_resp>>
    /\ UNCHANGED notEaVars

\* The reporter filter on its own (lines 383-387): up to MaxFilterItems
\* recognised items in page order, each with one of the reporters.
MaxFilterItems == 3
FilterReporterPool == { "R. Cudars", "r. cudars", "R. $udars", "R. Jansons", "R. CUDARS" }
FilterItemLists ==
    UNION { { [k \in 1..n |->
                 [pos |-> ItemAt(k, f[k]).pos, ta_link |-> ItemAt(k, f[k]).ta_link,
                  ta_id |-> ItemAt(k, f[k]).ta_id, title |-> ItemAt(k, f[k]).title,
                  reporter |-> f[k], section |-> "Unknown"]]
              : f \in [1..n -> FilterReporterPool] }
            : n \in 0..MaxFilterItems }

FilterStart ==
    /\ cab_pc = "filter"
    /\ HAS_ANTHROPIC = FALSE
    /\ html = << >>
    /\ meeting_path = ""
    /\ meeting_date = ""
    /\ agenda_html = << >>
    /\ sections = << >>
    /\ items \in FilterItemLists
    /\ cudars_items = << >>
    /\ item_i = 0
    /\ la_html = [am |-> FALSE, lm |-> FALSE, pm |-> FALSE]
    /\ legal_act_text = ""
    /\ cab_resp = ""
    /\ cab_result = Pending

\* lines 383-387
FilterStep ==
    /\ cab_pc = "filter"
    /\ cudars_items' = FilterCudars(items)
    /\ cab_pc' = "filtered"
    /\ UNCHANGED <<HAS_ANTHROPIC, html, meeting_path, meeting_date, agenda_html, sections,
                   items, item_i, la_html, legal_act_text, cab_resp, cab_result>>
    /\ UNCHANGED notCabVars

----------------------------------------------------------------------------
(* create_html_dashboard and main *)

\* The report is the sequence of the sections written into it, each with
\* the form it takes and the placeholder text it shows, if any.

\* "if x" for a result that is None or a dict with keys
Truthy(x) == x # None

\* lines 1123-1130
InspirationSection(q) == << [section |-> "inspiration", form |-> "data", text |-> q.quote] >>

\* lines 1135-1195: the section is written when there are chart records;
\* the if has no else
EaddressSection(data) ==
    IF Truthy(data) /\ data.records # << >>
    THEN << [section |-> "eaddress", form |-> "data", text |-> ""] >>
    ELSE << >>

\* lines 1197-1224
NewsSections(tc, gov) ==
    << [section |-> "techcrunch", form |-> "data", text |-> tc],
       [section |-> "kursors", form |-> "data", text |-> gov] >>

\* lines 1233-1283 without the elif of line 1268
CabinetSectionMutant(data) ==
    IF Truthy(data) /\ data.cudars_items # << >>
    THEN << [section |-> "cabinet", form |-> "data", text |-> ""] >>
    ELSE << [section |-> "cabinet", form |-> "unavailable",
             text |-> "Could not fetch cabinet agenda data."] >>

\* lines 1233-1283
CabinetSection(data) ==
    IF Truthy(data) /\ data.cudars_items # << >>
    THEN << [section |-> "cabinet", form |-> "data", text |-> ""] >>
    ELSE IF Truthy(data)
    THEN << [section |-> "cabinet", form |-> "empty",
             text |-> "No items reported by R.Cudars in the next sitting."] >>
    ELSE << [section |-> "cabinet", form |-> "unavailable",
             text |-> "Could not fetch cabinet agenda data."] >>

\* lines 1286-1324
ParliamentSection(data) ==
    IF Truthy(data) /\ data.items # << >>
    THEN << [section |-> "parliament", form |-> "data", text |-> ""] >>
    ELSE IF Truthy(data)
    THEN << [section |-> "parliament", form |-> "empty",
             text |-> "No VARAM or digital government topics found in next week's agendas."] >>
    ELSE << [section |-> "parliament", form |-> "unavailable",
             text |-> "Could not fetch Parliament agenda data."] >>

\* create_html_dashboard
CreateHtmlDashboard(tc, gov, q, ea, cab, parl) ==
    InspirationSection(q) \o EaddressSection(ea) \o NewsSections(tc, gov)
    \o CabinetSection(cab) \o ParliamentSection(parl)

\* What the collectors hand to main. feedparser.parse does not raise on a
\* network failure: the feed then has no entries.
MaxArticles == 1
ArticleLists == { [k \in 1..n |-> [title |-> "Article", link |-> "https://example.org/a"]]
                  : n \in 0..MaxArticles }

\* get_eaddress_data: None, a dict without chart records, a dict with one
EaddressOutcomes ==
    LET day == StreakEntry(0, 3, 1)
        streak == [k \in 1..StreakDays |-> day]
        record == [date |-> -1, label |-> Strftime(-1, "%b %Y"), fiziska |-> 1000, juridiska |-> 500]
    IN  { EaddressExcept, EaddressResult(<< >>, streak, streak),
          EaddressResult(<< record >>, streak, streak) }

\* get_cabinet_cudars_items: None, a dict without matched items, a dict with one
CabinetOutcomes ==
    LET path == MeetingsPrefix \o "0a1b2c3d-1111-2222-3333-444455556666"
        item == [pos |-> 100, ta_link |-> BASE_URL \o "/legal_acts/1", ta_id |-> "26-TA-1",
                 title |-> "Jautqjums", reporter |-> "R. Cudars", section |-> "Unknown",
                 essence |-> "", decision |-> ""]
    IN  { CabinetExcept, CabinetResult("11.11.2026. 10:00", path, << >>, << >>),
          CabinetResult("11.11.2026. 10:00", path, << item >>, << >>) }

\* get_parliament_agenda: None, a dict without items, a dict with one
ParliamentOutcomes ==
    LET sitting == [time |-> "10.00", title |-> "Komisija", unid |-> "ABC"]
    IN  { ParliamentExcept, ParliamentResult(WeekDates(0), << >>),
          ParliamentResult(WeekDates(0), SittingItems(<< "1. VARAM" >>, 7, sitting)) }

MainStart ==
    /\ main_pc = "techcrunch"
    /\ techcrunch_news = << >>
    /\ gov_news = << >>
    /\ quote = None
    /\ eaddress_data = None
    /\ cabinet_data = None
    /\ parliament_data = None
    /\ html_content = << >>
    /\ dashboard_file = None

MainIdle ==
    /\ main_pc = "idle"
    /\ techcrunch_news = << >>
    /\ gov_news = << >>
    /\ quote = None
    /\ eaddress_data = None
    /\ cabinet_data = None
    /\ parliament_data = None
    /\ html_content = << >>
    /\ dashboard_file = None

\* line 1366
GetTechcrunchNews ==
    /\ main_pc = "techcrunch"
    /\ techcrunch_news' \in ArticleLists
    /\ main_pc' = "gov"
    /\ UNCHANGED <<gov_news, quote, eaddress_data, cabinet_data, parliament_data,
                   html_content, dashboard_file>>
    /\ UNCHANGED notMainVars

\* line 1367
GetDigitalGovernmentNews ==
    /\ main_pc = "gov"
    /\ gov_news' \in ArticleLists
    /\ main_pc' = "quote"
    /\ UNCHANGED <<techcrunch_news, quote, eaddress_data, cabinet_data, parliament_data,
                   html_content, dashboard_file>>
    /\ UNCHANGED notMainVars

\* line 1368: requests.get of line 86 or the parsing of lines 89-93 raises;
\* neither get_motivational_quote nor main has a handler, so the exception
\* ends the process
GetQuoteFails ==
    /\ main_pc = "quote"
    /\ main_pc' = "aborted"
    /\ UNCHANGED <<techcrunch_news, gov_news, quote, eaddress_data, cabinet_data,
                   parliament_data, html_content, dashboard_file>>
    /\ UNCHANGED notMainVars

\* line 1368
GetQuote ==
    /\ main_pc = "quote"
    /\ quote' = [type |-> "dict", quote |-> "Quote", author |-> "Author"]
    /\ main_pc' = "eaddress"
    /\ UNCHANGED <<techcrunch_news, gov_news, eaddress_data, cabinet_data, parliament_data,
                   html_content, dashboard_file>>
    /\ UNCHANGED notMainVars

\* line 1369
GetEaddressData ==
    /\ main_pc = "eaddress"
    /\ eaddress_data' \in EaddressOutcomes
    /\ main_pc' = "cabinet"
    /\ UNCHANGED <<techcrunch_news, gov_news, quote, cabinet_data, parliament_data,
                   html_content, dashboard_file>>
    /\ UNCHANGED notMainVars

\* line 1370
GetCabinetCudarsItems ==
    /\ main_pc = "cabinet"
    /\ cabinet_data' \in CabinetOutcomes
    /\ main_pc' = "parliament"
    /\ UNCHANGED <<techcrunch_news, gov_news, quote, eaddress_data, parliament_data,
                   html_content, dashboard_file>>
    /\ UNCHANGED notMainVars

\* line 1371
GetParliamentAgenda ==
    /\ main_pc = "parliament"
    /\ parliament_data' \in ParliamentOutcomes
    /\ main_pc' = "render"
    /\ UNCHANGED <<techcrunch_news, gov_news, quote, eaddress_data, cabinet_data,
                   html_content, dashboard_file>>
    /\ UNCHANGED notMainVars

\* line 1374
Render ==
    /\ main_pc = "render"
    /\ html_content' = CreateHtmlDashboard(techcrunch_news, gov_news, quote, eaddress_data,
                                           cabinet_data, parliament_data)
    /\ main_pc' = "write"
    /\ UNCHANGED <<techcrunch_news, gov_news, quote, eaddress_data, cabinet_data,
                   parliament_data, dashboard_file>>
    /\ UNCHANGED notMainVars

\* lines 1377-1379
WriteFile ==
    /\ main_pc = "write"
    /\ dashboard_file' = html_content
    /\ main_pc' = "exit"
    /\ UNCHANGED <<techcrunch_news, gov_news, quote, eaddress_data, cabinet_data,
                   parliament_data, html_content>>
    /\ UNCHANGED notMainVars

----------------------------------------------------------------------------
(* Specifications *)

PointInit == PointStart /\ ParlIdle /\ DecIdle /\ CabIdle /\ EaIdle /\ EssIdle /\ MainIdle
PointNext == ClassifyPoint
SpecPoint == PointInit /\ [][PointNext]_vars

ParlInit == ParlStart /\ PointIdle /\ DecIdle /\ CabIdle /\ EaIdle /\ EssIdle /\ MainIdle
ParlNext ==
    \/ ComputeWeek
    \/ FetchIndexFails
    \/ FetchIndex
    \/ FetchSittingFails
    \/ FetchSittingNoBody
    \/ FetchSittingEmpty
    \/ FetchSitting
    \/ NextDay
    \/ ParlReturn
SpecParl == ParlInit /\ [][ParlNext]_vars

DecInit == DecStart /\ PointIdle /\ ParlIdle /\ CabIdle /\ EaIdle /\ EssIdle /\ MainIdle
DecNext == ExtractDecision
SpecDecision == DecInit /\ [][DecNext]_vars

CabInit == CabStart /\ PointIdle /\ ParlIdle /\ DecIdle /\ EaIdle /\ EssIdle /\ MainIdle
CabNext ==
    \/ FetchMeetingsFails
    \/ FetchMeetings
    \/ FetchAgendaFails
    \/ FetchAgenda
    \/ BeginItem
    \/ FetchDetailFails
    \/ FetchDetail
    \/ NoLegalAct
    \/ FetchLegalActFails
    \/ FetchLegalAct
    \/ NoAnnotation
    \/ FetchAnnotationFails
    \/ FetchAnnotation
    \/ NoProtocol
    \/ FetchProtocolFails
    \/ FetchProtocol
    \/ CabReturn
SpecCab == CabInit /\ [][CabNext]_vars

SectionInit == SectionStart /\ PointIdle /\ ParlIdle /\ DecIdle /\ EaIdle /\ EssIdle /\ MainIdle
SectionNext == AssignStep
SpecSection == SectionInit /\ [][SectionNext]_vars

EaInit == EaStart /\ PointIdle /\ ParlIdle /\ DecIdle /\ CabIdle /\ EssIdle /\ MainIdle
EaNext ==
    \/ FetchActFails
    \/ FetchAct
    \/ FetchDeactFails
    \/ FetchDeact
    \/ BuildRates
    \/ StreakDay
    \/ EaReturn
SpecSynth == EaInit /\ [][EaNext]_vars

FilterInit == FilterStart /\ PointIdle /\ ParlIdle /\ DecIdle /\ EaIdle /\ EssIdle /\ MainIdle
FilterNext == FilterStep
SpecFilter == FilterInit /\ [][FilterNext]_vars

MainInit == MainStart /\ PointIdle /\ ParlIdle /\ DecIdle /\ CabIdle /\ EaIdle /\ EssIdle
MainNext ==
    \/ GetTechcrunchNews
    \/ GetDigitalGovernmentNews
    \/ GetQuoteFails
    \/ GetQuote
    \/ GetEaddressData
    \/ GetCabinetCudarsItems
    \/ GetParliamentAgenda
    \/ Render
    \/ WriteFile
SpecMain == MainInit /\ [][MainNext]_vars

\* a run of main, or a run of get_cabinet_cudars_items on its own
ReportInit == MainInit \/ CabInit
ReportNext == MainNext \/ CabNext
SpecReport == ReportInit /\ [][ReportNext]_vars

EssInit == EssStart /\ PointIdle /\ ParlIdle /\ DecIdle /\ CabLocalsIdle /\ EaIdle /\ MainIdle
EssNext ==
    \/ RegexOnly
    \/ AiAttempt
    \/ AiReturns
    \/ AiRaises
    \/ CallAgain
SpecEssence == EssInit /\ [][EssNext]_vars

----------------------------------------------------------------------------
(* Claims about get_parliament_agenda *)

\* C3: a failure fetching one weekday's index is caught: the function still
\* returns a non-null result, and it returns only after the remaining days
\* were scanned.
C3_IndexFailureSkipsDay ==
    parl_resp = "index raised" =>
        /\ parl_result # None
        /\ (parl_pc = "done" => day_i > Len(week_dates))

SittingSkipped == FetchSittingFails \/ FetchSittingNoBody \/ FetchSittingEmpty

HasMinistryName(p) ==
    \/ Contains("viedqs administrqcijas un re%ionqlqs attystybas ministrij", Lower(p))
    \/ Contains("varam", Lower(p))

\* the members of the topic-keyword set
TopicSet == { DIGITAL_TOPICS[n] : n \in 1..Len(DIGITAL_TOPICS) }

\* how many distinct members of the set occur, as written, in the lower-cased point
TopicsAsWritten(p) == Cardinality({ dt \in TopicSet : Contains(dt, Lower(p)) })

\* how many distinct members of the set occur, lower-cased, in the lower-cased point
TopicsLowered(p) == Cardinality({ dt \in TopicSet : Contains(Lower(dt), Lower(p)) })

\* C5: a point that contains a ministry-name variant or its acronym is emitted
\* with match_type "keyword", however many topic keywords it also contains.
C5_KeywordMatchWins ==
    (point_pc = "classified" /\ HasMinistryName(point)) =>
        /\ Len(point_items) = 1
        /\ point_items[1].match_type = "keyword"

\* C6 as stated: without a ministry name, fewer than 2 distinct members of the
\* topic-keyword set in the lower-cased point emit nothing, 2 or more emit
\* exactly one "content" item.
C6_TopicThresholdAsWritten ==
    (point_pc = "classified" /\ ~HasMinistryName(point)) =>
        /\ TopicsAsWritten(point) < 2 => point_items = << >>
        /\ TopicsAsWritten(point) >= 2 =>
              (Len(point_items) = 1 /\ point_items[1].match_type = "content")

\* C6 amended: the same, the topic keywords being compared in lower case
\* ("IKT" and "IT droxyb" match as "ikt" and "it droxyb").
C6_TopicThresholdLowered ==
    (point_pc = "classified" /\ ~HasMinistryName(point)) =>
        /\ TopicsLowered(point) < 2 => point_items = << >>
        /\ TopicsLowered(point) >= 2 =>
              (Len(point_items) = 1 /\ point_items[1].match_type = "content")

\* C6 witness: a point with exactly one topic keyword and no ministry name
\* was classified and discarded.
C6_Witness ==
    /\ point_pc = "classified"
    /\ ~HasMinistryName(point)
    /\ TopicsLowered(point) = 1
    /\ point_items = << >>

----------------------------------------------------------------------------
(* Claims about the decision text *)

\* decision_lines alternate markers "N." and clause texts, starting with a marker
RECURSIVE Alternates(_)
Alternates(dls) ==
    \/ dls = << >>
    \/ /\ Len(dls) >= 2
       /\ MatchesOrdinal(dls[1])
       /\ ~MatchesOrdinal(dls[2])
       /\ Alternates(SubSeq(dls, 3, Len(dls)))

\* "N. <text>" for every pair, the clauses joined by single blanks
RECURSIVE NumberedClauses(_)
NumberedClauses(dls) ==
    IF dls = << >> THEN ""
    ELSE dls[1] \o " " \o dls[2]
         \o (IF Len(dls) > 2 THEN " " \o NumberedClauses(SubSeq(dls, 3, Len(dls))) ELSE "")

\* C8: when the captured decision lines alternate markers "N." and clause
\* texts, every marker, the first included, is merged with its text as
\* "N. <text>" and the clauses are joined by single blanks; the example
\* document gives "1. First clause. 2. Second clause.".
C8_NumberedClausesMerged ==
    dec_pc = "extracted" =>
        /\ (DecisionLines(lines) # << >> /\ Alternates(DecisionLines(lines))) =>
              decision = NumberedClauses(DecisionLines(lines))
        /\ lines = ExampleLines => decision = "1. First clause. 2. Second clause."

----------------------------------------------------------------------------
(* Claims about get_cabinet_cudars_items *)

\* C1: when the meetings-index fetch raises, the index has no row with a
\* UUID-shaped path, or the fetch of the agenda page raises, the function
\* returns None and nothing else.
C1_NullOnIndexOrAgendaFailure ==
    /\ cab_resp \in {"index raised", "agenda raised"} =>
          (cab_pc = "done" /\ cab_result = None)
    /\ (cab_pc # "index" /\ ~\E k \in 1..Len(html) : IsMeetingPath(html[k].url)) =>
          (cab_pc = "done" /\ cab_result = None)

\* C1 witness: the sitting was found and the fetch of its agenda page raised.
C1_Witness ==
    /\ cab_pc = "done"
    /\ cab_resp = "agenda raised"
    /\ \E k \in 1..Len(html) : IsMeetingPath(html[k].url)
    /\ cab_result = None

\* a step in which the fetch of one of the item's documents raised
ItemFailed ==
    /\ cab_pc \in {"detail", "annotation", "protocol"}
    /\ cab_resp' \in {"detail raised", "annotation raised", "protocol raised"}

\* the function has returned after the sitting and its agenda were fetched:
\* the result is a dict holding every matched item, each with its essence
\* and decision fields
ReturnedAfterEnrichment ==
    (cab_pc = "done" /\ cab_resp \notin {"index raised", "no meeting", "agenda raised"}) =>
        LET matched == FilterCudars(items)
        IN  /\ cab_result # None
            /\ cab_result.cudars_items = cudars_items
            /\ Len(cudars_items) = Len(matched)
            /\ \A k \in 1..Len(cudars_items) :
                  /\ cudars_items[k].ta_id = matched[k].ta_id
                  /\ {"essence", "decision"} \subseteq DOMAIN cudars_items[k]

\* C2: an exception while fetching one matched item's documents is caught for
\* that item: the matched items stay as they are (the failed one with the
\* essence and decision it had), the loop goes on with the next matched
\* item, and the function returns a dict holding every matched item.
C2_ItemFailureKeepsItem ==
    /\ [][ItemFailed =>
            /\ cudars_items' = cudars_items
            /\ item_i' = item_i + 1
            /\ cab_pc' = "item"
            /\ cab_result' = Pending]_vars
    /\ []ReturnedAfterEnrichment

\* C2 witness: the protocol fetch of a matched item raised after its essence
\* was filled; the item is kept with that essence and an empty decision, and
\* another matched item is still to be processed.
C2_Witness ==
    /\ cab_pc = "item"
    /\ cab_resp = "protocol raised"
    /\ item_i <= Len(cudars_items)
    /\ cudars_items[item_i - 1].essence # ""
    /\ cudars_items[item_i - 1].decision = ""

\* the sections that precede an offset
Preceding(pos) == { j \in 1..Len(sections) : sections[j].pos < pos }

\* C7: every item gets the name of the section with the greatest offset
\* strictly less than its own, and "Unknown" when no section offset is
\* strictly less.
C7_NearestPrecedingSection ==
    cab_pc = "assigned" =>
        \A k \in 1..Len(items) :
            IF Preceding(items[k].pos) = {}
            THEN items[k].section = "Unknown"
            ELSE LET j == CHOOSE j \in Preceding(items[k].pos) :
                              \A h \in Preceding(items[k].pos) :
                                  sections[h].pos <= sections[j].pos
                 IN  items[k].section = sections[j].name

\* C7 witness: sections A, B, C at offsets 0, 100, 250 and items at offsets
\* 50, 150, 300, assigned to A, B, C.
C7_Witness ==
    /\ cab_pc = "assigned"
    /\ sections = << [name |-> "A", pos |-> 0], [name |-> "B", pos |-> 100],
                     [name |-> "C", pos |-> 250] >>
    /\ [k \in 1..Len(items) |-> items[k].pos] = << 50, 150, 300 >>
    /\ [k \in 1..Len(items) |-> items[k].section] = << "A", "B", "C" >>

----------------------------------------------------------------------------
(* Claims about get_eaddress_data *)

\* the day of the k-th entry of a streak: today - 7, ..., today - 1
StreakDate(k) == ea_today - (StreakDays + 1) + k

\* the k-th StreakDay as a function of the fetched records, the run day, the
\* record field and the two category tags
ExpectedEntry(k, field, act_category, deact_category) ==
    LET day == StreakDate(k)
        activated == Vary(FindRate(BuildDailyRates(act_records), day)[field],
                          day, act_category)
        deactivated == Vary(FindRate(DeactRates(deact_records), day)[field],
                            day, deact_category)
    IN  [date |-> Strftime(day, "%a"), activated |-> activated,
         deactivated |-> deactivated, net |-> activated - deactivated]

CountsNonNegative(streak) ==
    \A k \in 1..Len(streak) :
        streak[k].activated \in Nat /\ streak[k].deactivated \in Nat

\* C10: in every StreakDay the synthesizer produces, for persons and for
\* legal entities, activated and deactivated are at least 0, whatever the
\* base rate is: positive, 0, or negative after a decrease of the cumulative
\* counter.
C10_StreakCountsNonNegative ==
    /\ CountsNonNegative(streak_fiziska)
    /\ CountsNonNegative(streak_juridiska)
    /\ (ea_pc = "done" /\ ea_result # None) =>
          /\ Len(ea_result.streak_fiziska) = StreakDays
          /\ Len(ea_result.streak_juridiska) = StreakDays
          /\ CountsNonNegative(ea_result.streak_fiziska)
          /\ CountsNonNegative(ea_result.streak_juridiska)
          /\ CountsNonNegative(<< ea_result.yesterday_fiziska, ea_result.yesterday_juridiska >>)

\* C10 witness: the cumulative counter of persons decreased, the base rate of
\* a day of the streak is negative, and the returned entry of that day has
\* activated = 0; the deactivation rate of legal entities that day is 0.
C10_Witness ==
    /\ ea_pc = "done"
    /\ ea_result # None
    /\ \E k \in 1..StreakDays :
          /\ FindRate(act_rates, ea_today - (StreakDays + 1) + k).fiziska < 0
          /\ ea_result.streak_fiziska[k].activated = 0
          /\ FindRate(deact_rates, ea_today - (StreakDays + 1) + k).juridiska = 0
          /\ ea_result.streak_juridiska[k].deactivated = 0

\* a returned streak: 7 entries labelled with the weekdays of today - 7, ...,
\* today - 1 in that order, each with net = activated - deactivated
StreakOfLastWeek(streak) ==
    /\ Len(streak) = 7
    /\ \A k \in 1..7 :
          /\ streak[k].date = DayAbbr[((ea_today - 8 + k) % 7) + 1]
          /\ streak[k].net = streak[k].activated - streak[k].deactivated

\* C11: when get_eaddress_data returns a non-null result, each streak has
\* exactly 7 entries, for the 7 consecutive days before today, oldest first
\* and yesterday last, every entry has net = activated - deactivated, and
\* yesterday_fiziska and yesterday_juridiska are the last entries.
C11_SevenDaysEndingYesterday ==
    (ea_pc = "done" /\ ea_result # None) =>
        /\ StreakOfLastWeek(ea_result.streak_fiziska)
        /\ StreakOfLastWeek(ea_result.streak_juridiska)
        /\ ea_result.yesterday_fiziska = ea_result.streak_fiziska[7]
        /\ ea_result.yesterday_juridiska = ea_result.streak_juridiska[7]
        /\ ea_result.yesterday_fiziska.date = DayAbbr[((ea_today - 1) % 7) + 1]

\* C11 witness: a run on a Tuesday returned streaks from Tuesday to Monday,
\* with a day on which more persons deactivated than activated and first
\* and last entries that differ.
C11_Witness ==
    /\ ea_pc = "done"
    /\ ea_result # None
    /\ ea_today = 1
    /\ ea_result.streak_fiziska[1].date = "Tue"
    /\ ea_result.yesterday_fiziska.date = "Mon"
    /\ ea_result.streak_fiziska[1] # ea_result.streak_fiziska[7]
    /\ \E k \in 1..7 : ea_result.streak_fiziska[k].net < 0

----------------------------------------------------------------------------
(* Claims about _extract_essence *)

\* no backend is configured, or the annotation text is shorter than 200
\* characters
NoGenerativePath == ~HAS_ANTHROPIC \/ cleaned_text.len < 200

\* C12: with no backend configured, or with an annotation text shorter than
\* 200 characters whatever the backend, _ai_extract_essence is never called,
\* the value returned is that of _regex_extract_essence, and a second call
\* on the same text returns what the first returned.
C12_NoGenerativePathWithoutBackendOrShortText ==
    NoGenerativePath =>
        /\ ai_attempts = 0
        /\ ess_pc # "ai"
        /\ ess_pc = "returned" => ess_out = RegexExtractEssence(cleaned_text)
        /\ (ess_pc = "returned" /\ ess_calls > 1) => ess_out = ess_first

\* C12 witness: a backend is configured, the text has 199 characters and
\* text for the patterns, and the second call has returned.
C12_Witness ==
    /\ HAS_ANTHROPIC
    /\ cleaned_text.len = 199
    /\ cleaned_text.found # ""
    /\ ess_pc = "returned"
    /\ ess_calls = 2
    /\ ess_out = ess_first

\* C13: when _ai_extract_essence was called and raised, _extract_essence
\* returns, and it returns what _regex_extract_essence gives for the same
\* annotation text.
C13_GenerativeFailureFallsBack ==
    ess_resp = "ai raised" =>
        /\ ess_pc \in {"returned", "call", "ai"}
        /\ ess_pc = "returned" => ess_out = RegexExtractEssence(cleaned_text)

\* C13 witness: the generative path was attempted and raised, and the
\* pattern extractor's non-empty text is returned.
C13_Witness ==
    /\ ess_resp = "ai raised"
    /\ ai_attempts = 1
    /\ ess_pc = "returned"
    /\ ess_out = RegexExtractEssence(cleaned_text)
    /\ ess_out # ""

----------------------------------------------------------------------------
(* Claims about the reporter filter *)

\* the characters i..i+5 of r spell the surname, in either spelling of its
\* first letter and in any case
SurnameAt(r, i) ==
    /\ i + 5 <= Len(r)
    /\ SubSeq(r, i, i) \in {"c", "C", "&", "$"}
    /\ SubSeq(r, i + 1, i + 1) \in {"u", "U"}
    /\ SubSeq(r, i + 2, i + 2) \in {"d", "D"}
    /\ SubSeq(r, i + 3, i + 3) \in {"a", "A"}
    /\ SubSeq(r, i + 4, i + 4) \in {"r", "R"}
    /\ SubSeq(r, i + 5, i + 5) \in {"s", "S"}

MatchesSurname(r) == \E i \in 1..Len(r) : SurnameAt(r, i)

\* the page positions of the recognised items whose reporter matches
MatchingPositions == { items[k].pos : k \in { j \in 1..Len(items) : MatchesSurname(items[j].reporter) } }

\* C14: the filtered list holds exactly the recognised items whose reporter
\* matches the surname in either spelling and any case, in page order;
\* "R. Cudars", "r. cudars" and "R. $udars" match, "R. Jansons" does not.
C14_ReporterFilter ==
    cab_pc = "filtered" =>
        /\ \A k \in 1..Len(cudars_items) : \E j \in 1..Len(items) : cudars_items[k] = items[j]
        /\ { cudars_items[k].pos : k \in 1..Len(cudars_items) } = MatchingPositions
        /\ \A k \in 1..(Len(cudars_items) - 1) : cudars_items[k].pos < cudars_items[k + 1].pos
        /\ \A j \in 1..Len(items) :
              /\ items[j].reporter \in {"R. Cudars", "r. cudars", "R. $udars"} =>
                    \E k \in 1..Len(cudars_items) : cudars_items[k] = items[j]
              /\ items[j].reporter = "R. Jansons" =>
                    ~\E k \in 1..Len(cudars_items) : cudars_items[k] = items[j]

\* C14 witness: a page whose items are reported by "r. cudars", "R. Jansons"
\* and "R. $udars" was filtered to the first and the third.
C14_Witness ==
    /\ cab_pc = "filtered"
    /\ [k \in 1..Len(items) |-> items[k].reporter] = << "r. cudars", "R. Jansons", "R. $udars" >>
    /\ cudars_items = << items[1], items[3] >>

----------------------------------------------------------------------------
(* Claims about create_html_dashboard and main *)

\* the report has a section of that name showing a placeholder
HasPlaceholder(report, name) ==
    \E k \in 1..Len(report) :
        report[k].section = name /\ report[k].form \in {"unavailable", "empty"}

\* C15: in the rendered report, each of the e-address, cabinet and
\* parliament sections whose result is null or empty shows an explicit
\* "could not fetch" or "no matching items" placeholder; no such section is
\* left out.
C15_PlaceholderForAbsentOrEmpty ==
    main_pc \in {"write", "exit"} =>
        /\ (eaddress_data = None \/ eaddress_data.records = << >>) =>
              HasPlaceholder(html_content, "eaddress")
        /\ (cabinet_data = None \/ cabinet_data.cudars_items = << >>) =>
              HasPlaceholder(html_content, "cabinet")
        /\ (parliament_data = None \/ parliament_data.items = << >>) =>
              HasPlaceholder(html_content, "parliament")

\* C16: a run of main does not abort: whatever the network calls do, the
\* process goes on to render and write the report.
C16_MainNeverAborts ==
    /\ main_pc # "aborted"
    /\ main_pc = "exit" => (dashboard_file # None /\ dashboard_file = html_content)

----------------------------------------------------------------------------
(* Claims about the failure policy of get_eaddress_data *)

\* a request raised, or a statistics row of the answer could not be parsed
EaErrorOccurred == ea_resp \in {"act raised", "deact raised", "act row skipped"}

\* C17: get_eaddress_data returns None whenever a network error or a parse
\* error occurred, a statistics row that cannot be parsed included, and
\* otherwise returns the complete structure with both seven-day streaks.
C17_NullOnAnyError ==
    ea_pc = "done" =>
        IF EaErrorOccurred
        THEN ea_result = None
        ELSE /\ ea_result # None
             /\ Len(ea_result.streak_fiziska) = StreakDays
             /\ Len(ea_result.streak_juridiska) = StreakDays

----------------------------------------------------------------------------
(* Claims about the section of a returned item *)

\* C18: every item of a returned cabinet result has a non-empty section: the
\* name of a section heading that precedes it on the page, or "Unknown".
C18_SectionNeverEmpty ==
    cab_result.type = "dict" =>
        \A k \in 1..Len(cab_result.cudars_items) :
            LET it == cab_result.cudars_items[k]
            IN  /\ it.section # ""
                /\ \/ it.section = "Unknown"
                   \/ \E j \in 1..Len(sections) :
                         sections[j].name = it.section /\ sections[j].pos < it.pos

----------------------------------------------------------------------------
(* Claims about the capture of the decision lines *)

\* the last line before line i with a sitting-item numeric prefix, 0 if none
LastPrefixLine(i) ==
    IF \E p \in 1..(i - 1) : MatchesTaNumber(lines[p])
    THEN CHOOSE p \in 1..(i - 1) :
            /\ MatchesTaNumber(lines[p])
            /\ \A h \in (p + 1)..(i - 1) : ~MatchesTaNumber(lines[h])
    ELSE 0

\* Line i is met while capturing: it is not a prefix line itself, a prefix
\* line precedes it, and a bare ordinal line lies after the last such prefix
\* line and at or before line i. (A prefix line always puts the machine back
\* to skipping, so it is never met while capturing.)
MetWhileCapturing(i) ==
    /\ ~MatchesTaNumber(lines[i])
    /\ LastPrefixLine(i) > 0
    /\ \E o \in (LastPrefixLine(i) + 1)..i : MatchesOrdinal(lines[o])

\* line i contains a footer marker and is met while capturing
FooterMet(i) == MetWhileCapturing(i) /\ IsFooter(lines[i])

\* the positions of the captured lines
CapturedLines == CaptureFrom(lines, 1, "FALSE", << >>)

----------------------------------------------------------------------------
(* Claims about _find_rate *)

\* the rates are in ascending order of date
SortedByDate(rates) ==
    \A k \in 1..(Len(rates) - 1) : rates[k].date <= rates[k + 1].date

\* what the lookup is claimed to return for the day
RateAsClaimed(rates, day, got) ==
    LET upto == { k \in 1..Len(rates) : rates[k].date <= day }
    IN  IF rates = << >> THEN got.fiziska = 0 /\ got.juridiska = 0
        ELSE IF upto = {}
        THEN /\ got.fiziska = rates[Len(rates)].fiziska
             /\ got.juridiska = rates[Len(rates)].juridiska
        ELSE \E k \in upto :
                /\ \A h \in upto : rates[h].date <= rates[k].date
                /\ got.fiziska = rates[k].fiziska
                /\ got.juridiska = rates[k].juridiska

\* C20: for rates in ascending order of date and a day D, _find_rate returns
\* the rates of the record with the greatest date <= D; the last record's
\* when no record has a date <= D; 0 and 0 when there are no rates. Checked
\* for the two lookups of every turn of the streak loop.
C20_FindRateGreatestDateUpTo ==
    (ea_pc = "streak" /\ days_ago >= 1) =>
        LET day == ea_today - days_ago
        IN  /\ SortedByDate(act_rates) =>
                  RateAsClaimed(act_rates, day, FindRate(act_rates, day))
            /\ SortedByDate(deact_rates) =>
                  RateAsClaimed(deact_rates, day, FindRate(deact_rates, day))

\* a lookup with two periods that started on or before the day, with
\* different rates, while the other list has no period that started yet
C20_Witness ==
    /\ ea_pc = "streak"
    /\ days_ago >= 1
    /\ Len(deact_rates) >= 2
    /\ SortedByDate(deact_rates)
    /\ deact_rates[1].date < deact_rates[2].date
    /\ deact_rates[2].date <= ea_today - days_ago
    /\ deact_rates[1].fiziska # deact_rates[2].fiziska
    /\ act_rates # << >>
    /\ \A k \in 1..Len(act_rates) : act_rates[k].date > ea_today - days_ago

----------------------------------------------------------------------------
(* Claims about the period of a daily rate *)

\* the rate of the period between act_records[i] and act_records[i + 1]
RateOfPair(i) ==
    LET prev_r == act_records[i]
        curr_r == act_records[i + 1]
        days_between == curr_r.date - prev_r.date
    IN  [fiziska |-> RoundDiv(curr_r.fiziska - prev_r.fiziska, days_between),
         juridiska |-> RoundDiv(curr_r.juridiska - prev_r.juridiska, days_between)]

\* C21: every activation rate computed from adjacent records (prev, curr) is
\* round((curr.count - prev.count) / days_between), and a day D with
\* prev.date <= D < curr.date is given the rate derived from (prev, curr).
C21_DayGetsRateOfItsPeriod ==
    (ea_pc = "streak" /\ days_ago >= 1) =>
        LET day == ea_today - days_ago
        IN  \A i \in 1..(Len(act_records) - 1) :
                act_records[i].date < act_records[i + 1].date =>
                    /\ act_rates[i].fiziska = RateOfPair(i).fiziska
                    /\ act_rates[i].juridiska = RateOfPair(i).juridiska
                    /\ (act_records[i].date <= day /\ day < act_records[i + 1].date) =>
                          FindRate(act_rates, day) = RateOfPair(i)

----------------------------------------------------------------------------
(* Claims about the week get_parliament_agenda scans *)

\* day 0 is a Monday
IsMonday(d) == d % 7 = 0
IsFriday(d) == d % 7 = 4

\* C22: whatever the weekday of today, the scanned dates are five consecutive
\* days, the first being the first Monday strictly after today (1 to 7 days
\* ahead) and the last the Friday of that week; week_start is that Monday
\* and week_end is week_start plus 4 days.
C22_NextWeekMondayToFriday ==
    /\ parl_pc \notin {"idle", "start"} =>
          /\ Len(week_dates) = 5
          /\ IsMonday(week_dates[1])
          /\ week_dates[1] - today \in 1..7
          /\ \A d \in (today + 1)..(week_dates[1] - 1) : ~IsMonday(d)
          /\ \A k \in 1..4 : week_dates[k + 1] = week_dates[k] + 1
          /\ IsFriday(week_dates[5])
    /\ parl_result.type = "dict" =>
          /\ parl_result.week_start = [date |-> week_dates[1], fmt |-> "%d.%m.%Y"]
          /\ parl_result.week_end = [date |-> week_dates[1] + 4, fmt |-> "%d.%m.%Y"]

\* a result returned for a run on a Monday: the week starts 7 days ahead
C22_Witness ==
    /\ parl_pc = "done"
    /\ parl_result.type = "dict"
    /\ IsMonday(today)
    /\ week_dates[1] = today + 7

\* a result returned for a run on a Sunday: the week starts the next day
C22_WitnessSunday ==
    /\ parl_pc = "done"
    /\ parl_result.type = "dict"
    /\ today % 7 = 6
    /\ week_dates[1] = today + 1

----------------------------------------------------------------------------
(* Claims about the displayed point text *)

\* C23: the point text of an emitted item is the first 300 characters of the
\* agenda point, followed by "..." if and only if the point is longer than
\* 300 characters; a point of at most 300 characters is emitted unchanged.
C23_PointTruncatedAt300 ==
    (point_pc = "classified" /\ point_items # << >>) =>
        LET shown == point_items[Len(point_items)].point
        IN  IF Len(point) > 300
            THEN /\ Len(shown) = 303
                 /\ SubSeq(shown, 1, 300) = SubSeq(point, 1, 300)
                 /\ SubSeq(shown, 301, 303) = "..."
            ELSE shown = point

\* an emitted point of 301 characters: the last one is replaced by the marker
C23_Witness ==
    /\ point_pc = "classified"
    /\ Len(point) = 301
    /\ point_items # << >>
    /\ Len(point_items[1].point) = 303

\* an emitted point of exactly 300 characters
C23_WitnessUnchanged ==
    /\ point_pc = "classified"
    /\ Len(point) = 300
    /\ point_items # << >>
    /\ point_items[1].point = point

----------------------------------------------------------------------------
(* Claims about null and reached-but-empty results *)

\* the sections of that name in the report
BlocksOf(report, name) == SelectSeq(report, LAMBDA b : b.section = name)

\* the report has one section of that name, in the form that belongs to the
\* result: unavailable for None, empty for no items, the listing otherwise
OneOfThreeForms(report, name, is_null, is_empty, unavailable, empty) ==
    LET blocks == BlocksOf(report, name)
    IN  /\ Len(blocks) = 1
        /\ (blocks[1].form = "unavailable") <=> is_null
        /\ (blocks[1].form = "empty") <=> (~is_null /\ is_empty)
        /\ (blocks[1].form = "data") <=> (~is_null /\ ~is_empty)
        /\ (blocks[1].text = unavailable) <=> is_null
        /\ (blocks[1].text = empty) <=> (~is_null /\ is_empty)

\* C24: for the cabinet and for the parliament section the report shows
\* exactly one of three forms: "Could not fetch ..." iff the result is None,
\* "No items ..." / "No ... topics found ..." iff it is a dict with an empty
\* list, the listing iff the list is non-empty; and a cabinet run that
\* reaches the agenda and matches no reporter returns a dict with an empty
\* list, not None.
C24_NullDistinctFromEmpty ==
    /\ main_pc \in {"write", "exit"} =>
          /\ OneOfThreeForms(html_content, "cabinet", cabinet_data = None,
                             cabinet_data # None /\ cabinet_data.cudars_items = << >>,
                             "Could not fetch cabinet agenda data.",
                             "No items reported by R.Cudars in the next sitting.")
          /\ OneOfThreeForms(html_content, "parliament", parliament_data = None,
                             parliament_data # None /\ parliament_data.items = << >>,
                             "Could not fetch Parliament agenda data.",
                             "No VARAM or digital government topics found in next week's agendas.")
    /\ (cab_pc = "done" /\ cab_resp = "agenda"
          /\ \A k \in 1..Len(items) : ~IsCudars(items[k].reporter)) =>
          /\ cab_result # None
          /\ cab_result.type = "dict"
          /\ cab_result.cudars_items = << >>

\* a written report for a cabinet result without items and a parliament
\* result of None
C24_Witness ==
    /\ main_pc = "exit"
    /\ cabinet_data # None
    /\ cabinet_data.cudars_items = << >>
    /\ parliament_data = None
    /\ BlocksOf(dashboard_file, "cabinet")[1].form = "empty"
    /\ BlocksOf(dashboard_file, "parliament")[1].form = "unavailable"

\* a cabinet run that reached an agenda with items, none of them matched
C24_WitnessAgenda ==
    /\ cab_pc = "done"
    /\ cab_resp = "agenda"
    /\ items # << >>
    /\ cab_result.type = "dict"
    /\ cab_result.cudars_items = << >>

----------------------------------------------------------------------------
(* Claims about the failures inside the enrichment of one item *)

\* the fetch of the draft legal act raised
LegalActFailed == cab_pc = "legal" /\ cab_resp' = "legal act raised"

\* the annotation is fetched right after the fetch of the legal act raised
AnnotationAfterLegalActFailure ==
    /\ cab_pc = "annotation"
    /\ cab_resp = "legal act raised"
    /\ cab_resp' = "annotation"

\* the fetch of the protocol decision raised
ProtocolFailed == cab_pc = "protocol" /\ cab_resp' = "protocol raised"

\* C25: a failure fetching the draft legal act is absorbed on its own: the
\* item's enrichment goes on with the annotation, the essence is computed
\* from the annotation with an empty legal-act text, and the protocol step
\* follows; a failure fetching the protocol decision leaves the essence
\* computed before in place and the decision empty.
C25_LegalActFailureAbsorbed ==
    /\ [][LegalActFailed =>
            /\ cab_pc' = "annotation"
            /\ legal_act_text' = ""
            /\ UNCHANGED <<cudars_items, item_i, la_html, cab_result>>]_vars
    /\ [][AnnotationAfterLegalActFailure =>
            /\ cab_pc' = "protocol"
            /\ item_i' = item_i
            /\ \E cleaned \in AnnotationPool, ai_raises \in BOOLEAN :
                  cudars_items'[item_i].essence =
                      ExtractEssence(cleaned, "", HAS_ANTHROPIC, ai_raises)]_vars
    /\ [][ProtocolFailed =>
            /\ Len(cudars_items') = Len(cudars_items)
            /\ cudars_items'[item_i].essence = cudars_items[item_i].essence
            /\ cudars_items'[item_i].decision = ""]_vars
    /\ [](cab_resp = "legal act raised" => legal_act_text = "")

\* C25 witness: the detail page had all three links, the fetch of the legal
\* act raised (its text is empty), the essence was then computed from the
\* annotation, and the protocol step is next.
C25_Witness ==
    /\ cab_pc = "protocol"
    /\ cab_resp = "annotation"
    /\ la_html.lm /\ la_html.am /\ la_html.pm
    /\ legal_act_text = ""
    /\ cudars_items[item_i].essence # ""
    /\ cudars_items[item_i].decision = ""

=============================================================================
